---- MODULE Spec2Model ----
(***************************************************************************)
(* Dispatch matching engine of the ride-hailing backend (isuride).         *)
(*                                                                         *)
(* The relational store is modelled by the tables the matching cycle and   *)
(* the ride handlers touch:                                                *)
(*   rides          sequence of rows, in created_at order (row index is    *)
(*                  the ride id)                                           *)
(*   ride_statuses  for every ride the status labels of its events, in     *)
(*                  created_at order                                       *)
(*   chairs         the fleet joined with chair_models.speed               *)
(*   app_sent_at    the (ride, event) pairs of ride_statuses whose         *)
(*                  app_sent_at is set                                     *)
(*   coupons        sequence of rows, in created_at order                  *)
(*   users          sequence of rows (row index is the user id)            *)
(* Every handler runs in one transaction (db.Beginx .. tx.Commit with a    *)
(* deferred tx.Rollback) and is one action of Spec; SpecTx splits the      *)
(* matching cycle into its read and its write phase to study overlapping   *)
(* invocations; SpecHungarian applies hungarianMethod to bounded matrices. *)
(***************************************************************************)
EXTENDS Integers, Sequences, FiniteSets, TLC

VARIABLES rides, ride_statuses, chairs, strategy, cycle, resp, tx, hm,
          app_sent_at, coupons, users

vars == <<rides, ride_statuses, chairs, strategy, cycle, resp, tx, hm,
          app_sent_at, coupons, users>>

----------------------------------------------------------------------------
(* Bounds of the model *)

MaxRides == 2

NumUsers == 2

NumChairs == 2

MaxN == 2

MaxCost == 2

MaxPending == 3

MaxCoord == 2

MaxSpeed == 2

(* Program constants *)

largeCost == 9999999

INF == 1000000000

bestTimeInit == 1073741824

NULL == 0

----------------------------------------------------------------------------
(* Pure helpers *)

SeqToSet(s) == {s[k] : k \in DOMAIN s}

Max2(a, b) == IF a > b THEN a ELSE b

Min2(a, b) == IF a < b THEN a ELSE b

(* abs without the negation *)
abs_NoNegation(a) == a

abs(a) == IF a < 0 THEN -a ELSE a

(* the distance without abs *)
calculateDistance_Signed(aLatitude, aLongitude, bLatitude, bLongitude) ==
  (aLatitude - bLatitude) + (aLongitude - bLongitude)

calculateDistance(aLatitude, aLongitude, bLatitude, bLongitude) ==
  abs(aLatitude - bLatitude) + abs(aLongitude - bLongitude)

(* Go's integer division truncates toward zero; \div floors. *)
GoDiv(a, b) == IF a >= 0 THEN a \div b ELSE -((-a) \div b)

----------------------------------------------------------------------------
(* hungarianMethod: arrays u, v, p, way are indexed 0..n as in the code;   *)
(* the cost matrix and the result are 1-based here (Go: 0-based), so       *)
(* costMatrix[i0-1][j-1] is cm[i0][j] and res[p[j]-1] = j-1 is             *)
(* res[p[j]] = j.                                                          *)

(* the scan with cur := costMatrix[i0-1][j-1], the potentials forgotten *)
RECURSIVE HungScan_NoPotentials(_, _, _, _)
HungScan_NoPotentials(cm, n, j, s) ==
  IF j > n THEN s
  ELSE IF s.used[j] THEN HungScan_NoPotentials(cm, n, j + 1, s)
  ELSE
    LET cur   == cm[s.i0][j]
        upd   == cur < s.minv[j]
        minvj == IF upd THEN cur ELSE s.minv[j]
        s1    == [s EXCEPT !.minv[j] = minvj,
                           !.way[j]  = IF upd THEN s.j0 ELSE @]
        s2    == IF minvj < s1.delta
                 THEN [s1 EXCEPT !.delta = minvj, !.j1 = j]
                 ELSE s1
    IN HungScan_NoPotentials(cm, n, j + 1, s2)

(* for j := 1; j <= n; j++ { if !used[j] { ... } }  (lines 184-196) *)
RECURSIVE HungScan(_, _, _, _)
HungScan(cm, n, j, s) ==
  IF j > n THEN s
  ELSE IF s.used[j] THEN HungScan(cm, n, j + 1, s)
  ELSE
    LET cur   == cm[s.i0][j] - s.u[s.i0] - s.v[j]
        upd   == cur < s.minv[j]
        minvj == IF upd THEN cur ELSE s.minv[j]
        s1    == [s EXCEPT !.minv[j] = minvj,
                           !.way[j]  = IF upd THEN s.j0 ELSE @]
        s2    == IF minvj < s1.delta
                 THEN [s1 EXCEPT !.delta = minvj, !.j1 = j]
                 ELSE s1
    IN HungScan(cm, n, j + 1, s2)

(* for j := 0; j <= n; j++ { if used[j] {...} else {...} }  (lines 197-204) *)
RECURSIVE HungRelabel(_, _, _)
HungRelabel(n, j, s) ==
  IF j > n THEN s
  ELSE IF s.used[j]
       THEN HungRelabel(n, j + 1,
              [s EXCEPT !.u[s.p[j]] = @ + s.delta, !.v[j] = @ - s.delta])
       ELSE HungRelabel(n, j + 1, [s EXCEPT !.minv[j] = @ - s.delta])

(* the first inner for { ... if p[j0] == 0 { break } }  (lines 179-209) *)
RECURSIVE HungSearch(_, _, _)
HungSearch(cm, n, s) ==
  LET s0 == [s EXCEPT !.used[s.j0] = TRUE, !.i0 = s.p[s.j0],
                      !.j1 = 0, !.delta = INF]
      s1 == HungScan(cm, n, 1, s0)
      s2 == HungRelabel(n, 0, s1)
      s3 == [s2 EXCEPT !.j0 = s2.j1]
  IN IF s3.p[s3.j0] = 0 THEN s3 ELSE HungSearch(cm, n, s3)

(* the second inner loop without p[j0] = p[j1] *)
RECURSIVE HungAugment_NoReassign(_)
HungAugment_NoReassign(s) ==
  LET j1 == s.way[s.j0]
      s1 == [s EXCEPT !.j0 = j1]
  IN IF j1 = 0 THEN s1 ELSE HungAugment_NoReassign(s1)

(* the second inner for { ... if j0 == 0 { break } }  (lines 210-217) *)
RECURSIVE HungAugment(_)
HungAugment(s) ==
  LET j1 == s.way[s.j0]
      s1 == [s EXCEPT !.p[s.j0] = s.p[j1], !.j0 = j1]
  IN IF j1 = 0 THEN s1 ELSE HungAugment(s1)

(* for i := 1; i <= n; i++ { ... }  (lines 171-218) *)
RECURSIVE HungRows(_, _, _)
HungRows(cm, n, s) ==
  IF s.i > n THEN s
  ELSE
    LET s0 == [s EXCEPT !.p[0] = s.i, !.j0 = 0,
                        !.minv = [j \in 0..n |-> IF j = 0 THEN 0 ELSE INF],
                        !.used = [j \in 0..n |-> FALSE]]
        s1 == HungSearch(cm, n, s0)
        s2 == HungAugment(s1)
    IN HungRows(cm, n, [s2 EXCEPT !.i = s.i + 1])

(* res := make([]int, n); for j := 1; j <= n; j++ { res[p[j]-1] = j - 1 } *)
RECURSIVE HungResult(_, _, _, _)
HungResult(p, n, j, res) ==
  IF j > n THEN res
  ELSE HungResult(p, n, j + 1, [res EXCEPT ![p[j]] = j])

hungarianMethod(costMatrix) ==
  LET n  == Len(costMatrix)
      z  == [j \in 0..n |-> 0]
      s0 == [u |-> z, v |-> z, p |-> z, way |-> z, minv |-> z,
             used |-> [j \in 0..n |-> FALSE],
             i |-> 1, i0 |-> 0, j0 |-> 0, j1 |-> 0, delta |-> 0]
      sN == HungRows(costMatrix, n, s0)
  IN HungResult(sN.p, n, 1, [i \in 1..n |-> 1])

----------------------------------------------------------------------------
(* The store *)

Users == 1..NumUsers

ChairIDs == 1..NumChairs

(* sql.NullInt64 *)
NullInt == [Valid |-> FALSE, Int64 |-> 0]

SomeInt(x) == [Valid |-> TRUE, Int64 |-> x]

(* rows of chairs joined with chair_models.speed the fleet is drawn from *)
ChairKinds ==
  << [is_active |-> TRUE,  last_latitude |-> SomeInt(0), last_longitude |-> SomeInt(0), speed |-> 1],
     [is_active |-> TRUE,  last_latitude |-> SomeInt(3), last_longitude |-> SomeInt(1), speed |-> 2],
     [is_active |-> FALSE, last_latitude |-> SomeInt(0), last_longitude |-> SomeInt(0), speed |-> 1],
     [is_active |-> TRUE,  last_latitude |-> NullInt,    last_longitude |-> NullInt,    speed |-> 1],
     [is_active |-> TRUE,  last_latitude |-> SomeInt(0), last_longitude |-> SomeInt(0), speed |-> 0] >>

(* the fleets: chair ids are opaque and no read of chairs is ordered by id, *)
(* so a fleet is taken once for every multiset of rows                      *)
Fleets ==
  { [c \in ChairIDs |-> ChairKinds[f[c]]] :
      f \in { g \in [ChairIDs -> DOMAIN ChairKinds] :
                \A a, b \in ChairIDs : a < b => g[a] <= g[b] } }

(* coordinates a ride request carries *)
Pickups == { <<0, 0>>, <<2, 1>> }

Destinations == { <<1, 1>> }

Strategies == {"optimal", "greedy"}

RideIDs(R) == 1..Len(R)

(* the self-join on MIN(created_at) *)
LatestStatusRows_Oldest(log) ==
  { log[k] : k \in { k1 \in DOMAIN log : \A k2 \in DOMAIN log : k2 >= k1 } }

(* SELECT ride_id, MAX(created_at) ... JOIN ride_statuses rs ON            *)
(* rs.created_at = max_created: the status labels of the rows of one ride  *)
(* that carry the greatest created_at (the position in the log).           *)
LatestStatusRows(log) ==
  { log[k] : k \in { k1 \in DOMAIN log : \A k2 \in DOMAIN log : k2 <= k1 } }

(* SELECT status FROM ride_statuses WHERE ride_id = ?                      *)
(* ORDER BY created_at DESC LIMIT 1; "" stands for sql.ErrNoRows           *)
getLatestRideStatus(S, rideID) ==
  IF Len(S[rideID]) = 0 THEN "" ELSE S[rideID][Len(S[rideID])]

(* all orders in which a SELECT without ORDER BY can return a set of rows *)
Orders(set) ==
  { f \in [1..Cardinality(set) -> set] : \A a, b \in DOMAIN f : f[a] = f[b] => a = b }

(* the ride ids of a sequence-valued, created_at-ordered SELECT *)
RECURSIVE OrderedIDs(_, _, _)
OrderedIDs(keep, k, n) ==
  IF k > n THEN <<>>
  ELSE (IF k \in keep THEN <<k>> ELSE <<>>) \o OrderedIDs(keep, k + 1, n)

(* the read with ORDER BY r.created_at DESC *)
RECURSIVE OrderedIDsDesc(_, _)
OrderedIDsDesc(keep, k) ==
  IF k < 1 THEN <<>>
  ELSE (IF k \in keep THEN <<k>> ELSE <<>>) \o OrderedIDsDesc(keep, k - 1)

SelectEligibleRides_NewestFirst(R, S) ==
  OrderedIDsDesc({ r \in RideIDs(R) :
                     /\ "MATCHING" \in LatestStatusRows(S[r])
                     /\ R[r].chair_id = NULL }, Len(R))

(* the joins without their conditions on created_at, status and chair_id *)
RECURSIVE EligibilityRowsOf_EveryRow(_, _, _, _)
EligibilityRowsOf_EveryRow(R, S, r, k) ==
  IF k > Len(S[r]) THEN <<>>
  ELSE <<r>> \o EligibilityRowsOf_EveryRow(R, S, r, k + 1)

(* internal_handlers.go:21-27 / part_002:26-32, the rows the two joins     *)
(* give for ride r: one for every row k of the ride's log that carries     *)
(* MAX(created_at) and the status MATCHING, when the ride has no chair     *)
RECURSIVE EligibilityRowsOf(_, _, _, _)
EligibilityRowsOf(R, S, r, k) ==
  IF k > Len(S[r]) THEN <<>>
  ELSE (IF /\ \A k2 \in DOMAIN S[r] : k2 <= k
           /\ S[r][k] = "MATCHING"
           /\ R[r].chair_id = NULL
        THEN <<r>> ELSE <<>>) \o EligibilityRowsOf(R, S, r, k + 1)

(* internal_handlers.go:20-29: the rows of the read, ORDER BY r.created_at *)
RECURSIVE EligibilityRows(_, _, _)
EligibilityRows(R, S, r) ==
  IF r > Len(R) THEN <<>>
  ELSE EligibilityRowsOf(R, S, r, 1) \o EligibilityRows(R, S, r + 1)

(* the read without AND r.chair_id IS NULL *)
SelectEligibleRides_IgnoresChair(R, S) ==
  OrderedIDs({ r \in RideIDs(R) : "MATCHING" \in LatestStatusRows(S[r]) }, 1, Len(R))

(* internal_handlers.go:21-29 / part_002:26-34 *)
SelectEligibleRides(R, S) ==
  OrderedIDs({ r \in RideIDs(R) :
                 /\ "MATCHING" \in LatestStatusRows(S[r])
                 /\ R[r].chair_id = NULL }, 1, Len(R))

(* the subquery with rs2.status NOT IN ('COMPLETED', 'ARRIVED') *)
BusyChairIDs_ArrivedIsDone(R, S) ==
  { R[r].chair_id : r \in { r2 \in RideIDs(R) :
       /\ \E st \in LatestStatusRows(S[r2]) : st \notin {"COMPLETED", "ARRIVED"}
       /\ R[r2].chair_id # NULL } }

(* the NOT IN subquery of internal_handlers.go:53-61 / part_002:67-75 *)
BusyChairIDs(R, S) ==
  { R[r].chair_id : r \in { r2 \in RideIDs(R) :
       /\ \E st \in LatestStatusRows(S[r2]) : st # "COMPLETED"
       /\ R[r2].chair_id # NULL } }

(* internal_handlers.go:48-62 / part_002:62-76 *)
SelectChairsWithModel(R, S, C) ==
  { c \in DOMAIN C : C[c].is_active /\ c \notin BusyChairIDs(R, S) }


----------------------------------------------------------------------------
(* The matching cycle: internalGetMatching *)

(* where the store can fail inside one cycle *)
Failures ==
  { [at |-> a, k |-> 0] : a \in {"none", "begin", "rides", "chairs", "commit"} }
    \cup { [at |-> "exec", k |-> k] : k \in 1..(2 * MaxRides) }

NoFailure == [at |-> "none", k |-> 0]

NoCycle ==
  [read |-> FALSE, rides |-> <<>>, freeChairs |-> <<>>, costs |-> <<>>,
   assignments |-> <<>>, committed |-> FALSE]

(* the loop without the test of LastLat.Valid and LastLon.Valid *)
FreeChairsOptimal_KeepsUnlocated(C, chairsWithModel) ==
  SelectSeq(chairsWithModel, LAMBDA c : ~(C[c].speed <= 0))

(* the loop over chairsWithModel, internal_handlers.go:68-92 *)
FreeChairsOptimal(C, chairsWithModel) ==
  SelectSeq(chairsWithModel,
            LAMBDA c : /\ C[c].last_latitude.Valid /\ C[c].last_longitude.Valid
                       /\ ~(C[c].speed <= 0))

(* the loop over chairsWithModel, part_002:83-105 (a map keyed by chair id) *)
FreeChairsGreedy(C, chairsWithModel) ==
  { c \in SeqToSet(chairsWithModel) :
      C[c].last_latitude.Valid /\ C[c].last_longitude.Valid }

(* the cell without the leg from the pickup to the destination *)
CostCell_PickupOnly(R, C, rideSeq, freeChairs, i, j) ==
  IF i <= Len(rideSeq) /\ j <= Len(freeChairs)
  THEN GoDiv(calculateDistance(C[freeChairs[j]].last_latitude.Int64,
                               C[freeChairs[j]].last_longitude.Int64,
                               R[rideSeq[i]].pickup_latitude, R[rideSeq[i]].pickup_longitude),
             C[freeChairs[j]].speed)
  ELSE largeCost

(* one cell of the cost matrix, internal_handlers.go:114-123 *)
CostCell(R, C, rideSeq, freeChairs, i, j) ==
  IF i <= Len(rideSeq) /\ j <= Len(freeChairs)
  THEN LET chair == C[freeChairs[j]]
           ride  == R[rideSeq[i]]
           distToPickup ==
             calculateDistance(chair.last_latitude.Int64, chair.last_longitude.Int64,
                               ride.pickup_latitude, ride.pickup_longitude)
           distToDestination ==
             calculateDistance(ride.pickup_latitude, ride.pickup_longitude,
                               ride.destination_latitude, ride.destination_longitude)
           totalDist == distToPickup + distToDestination * 2
       IN GoDiv(totalDist, chair.speed)
  ELSE largeCost

(* internal_handlers.go:102-125 *)
BuildCostMatrix(R, C, rideSeq, freeChairs) ==
  LET size == Max2(Len(rideSeq), Len(freeChairs))
  IN [i \in 1..size |-> [j \in 1..size |-> CostCell(R, C, rideSeq, freeChairs, i, j)]]

(* the loop keeping no pair *)
KeepRealPairs_None(cm, assignment, rideSeq, freeChairs, i) == <<>>

(* for i, j := range assignment { if i < n && j >= 0 && j < m && ... }     *)
(* internal_handlers.go:134-141                                            *)
RECURSIVE KeepRealPairs(_, _, _, _, _)
KeepRealPairs(cm, assignment, rideSeq, freeChairs, i) ==
  IF i > Len(assignment) THEN <<>>
  ELSE LET j == assignment[i]
       IN (IF i <= Len(rideSeq) /\ j >= 1 /\ j <= Len(freeChairs) /\ cm[i][j] < largeCost
           THEN << [RideID |-> rideSeq[i], ChairID |-> freeChairs[j]] >>
           ELSE <<>>)
          \o KeepRealPairs(cm, assignment, rideSeq, freeChairs, i + 1)

(* the cells costMatrix[i][j] of the pairs the loop above keeps *)
RECURSIVE KeptCosts(_, _, _, _, _)
KeptCosts(cm, assignment, rideSeq, freeChairs, i) ==
  IF i > Len(assignment) THEN <<>>
  ELSE LET j == assignment[i]
       IN (IF i <= Len(rideSeq) /\ j >= 1 /\ j <= Len(freeChairs) /\ cm[i][j] < largeCost
           THEN << cm[i][j] >>
           ELSE <<>>)
          \o KeptCosts(cm, assignment, rideSeq, freeChairs, i + 1)

(* timeEstimate := dist / ch.Speed, part_002:126-131 *)
TimeEstimate(ride, ch) ==
  GoDiv(calculateDistance(ch.last_latitude.Int64, ch.last_longitude.Int64,
                          ride.pickup_latitude, ride.pickup_longitude), ch.speed)

(* the inner loop keeping a chair it ranges over whatever its time *)
BestChairs_AnyUsable(ride, C, freeChairs) ==
  { c \in freeChairs : ~(C[c].speed <= 0) /\ TimeEstimate(ride, C[c]) < bestTimeInit }

(* the chairs the inner loop can leave in bestChairID, part_002:123-137:   *)
(* the map is ranged over in an unspecified order and a chair replaces the *)
(* best one only when strictly faster, so any chair of minimal time can win *)
BestChairs(ride, C, freeChairs) ==
  LET cand == { c \in freeChairs :
                  ~(C[c].speed <= 0) /\ TimeEstimate(ride, C[c]) < bestTimeInit }
  IN { c \in cand : \A d \in cand : TimeEstimate(ride, C[c]) <= TimeEstimate(ride, C[d]) }

(* the loop without delete(freeChairs, bestChairID) *)
RECURSIVE GreedyAssignments_NoDelete(_, _, _, _, _)
GreedyAssignments_NoDelete(R, C, rideSeq, k, freeChairs) ==
  IF k > Len(rideSeq) THEN { <<>> }
  ELSE LET best == BestChairs(R[rideSeq[k]], C, freeChairs)
       IN IF best = {}
          THEN GreedyAssignments_NoDelete(R, C, rideSeq, k + 1, freeChairs)
          ELSE UNION { { << [RideID |-> rideSeq[k], ChairID |-> c] >> \o rest :
                           rest \in GreedyAssignments_NoDelete(R, C, rideSeq, k + 1, freeChairs) }
                       : c \in best }

(* for _, ride := range rides { ... }, part_002:122-156: every assignment  *)
(* list the loop can produce                                               *)
RECURSIVE GreedyAssignments(_, _, _, _, _)
GreedyAssignments(R, C, rideSeq, k, freeChairs) ==
  IF k > Len(rideSeq) THEN { <<>> }
  ELSE LET best == BestChairs(R[rideSeq[k]], C, freeChairs)
       IN IF best = {}
          THEN GreedyAssignments(R, C, rideSeq, k + 1, freeChairs)
          ELSE UNION { { << [RideID |-> rideSeq[k], ChairID |-> c] >> \o rest :
                           rest \in (IF freeChairs \ {c} = {}
                                     THEN { <<>> }
                                     ELSE GreedyAssignments(R, C, rideSeq, k + 1,
                                                            freeChairs \ {c})) }
                       : c \in best }

(* the statements of the commit phase, in execution order *)
UpdateChair(asg) == [op |-> "UPDATE", ride |-> asg.RideID, chair |-> asg.ChairID, status |-> ""]

InsertStatus(asg, st) == [op |-> "INSERT", ride |-> asg.RideID, chair |-> NULL, status |-> st]

(* internal_handlers.go:148-153 *)
WritesOptimal(assignments) ==
  [k \in 1..Len(assignments) |-> UpdateChair(assignments[k])]

(* part_002:177-192 *)
WritesGreedy(assignments) ==
  [k \in 1..(2 * Len(assignments)) |->
     IF k % 2 = 1 THEN UpdateChair(assignments[(k + 1) \div 2])
                  ELSE InsertStatus(assignments[k \div 2], "ENROUTE")]

(* the UPDATE without WHERE id = ? *)
ExecWrite_NoWhere(db, w) ==
  IF w.op = "UPDATE"
  THEN [db EXCEPT !.rides = [r \in DOMAIN db.rides |-> [db.rides[r] EXCEPT !.chair_id = w.chair]]]
  ELSE [db EXCEPT !.ride_statuses[w.ride] = Append(@, w.status)]

(* UPDATE rides SET chair_id = ? WHERE id = ?  and                         *)
(* INSERT INTO ride_statuses (id, ride_id, status) VALUES (?, ?, ?)        *)
ExecWrite(db, w) ==
  IF w.op = "UPDATE"
  THEN [db EXCEPT !.rides[w.ride].chair_id = w.chair]
  ELSE [db EXCEPT !.ride_statuses[w.ride] = Append(@, w.status)]

RECURSIVE ExecWrites(_, _, _)
ExecWrites(db, writes, k) ==
  IF k = 0 THEN db ELSE ExecWrite(ExecWrites(db, writes, k - 1), writes[k])

(* statements executed on db instead of tx: an early return keeps them *)
Rollback_KeepsWrites(before, working) == working

(* defer tx.Rollback(): a transaction that returns before tx.Commit()      *)
(* leaves the store as it was                                              *)
Rollback(before, working) == before

(* tx.Commit() *)
Commit(before, working) == working


(* what one invocation computes from its reads: the eligible rides, the    *)
(* free chairs (listed by id), the pairs and the cost-matrix cells of the   *)
(* pairs                                                                    *)
PlanRecord(rideSeq, freeChairs, costs, assignments) ==
  [read |-> TRUE, rides |-> rideSeq, freeChairs |-> OrderedIDs(freeChairs, 1, NumChairs),
   costs |-> costs, assignments |-> assignments, committed |-> FALSE]

(* internal_handlers.go:128-141: the pairs kept from the solver's answer *)
SolvedPlan(rideSeq, freeChairs, cm, assignment) ==
  PlanRecord(rideSeq, SeqToSet(freeChairs),
             KeptCosts(cm, assignment, rideSeq, freeChairs, 1),
             KeepRealPairs(cm, assignment, rideSeq, freeChairs, 1))

(* internal_handlers.go:94-141: no free chair, or the solver on the matrix *)
MatchRidesToChairs(rideSeq, freeChairs, cm) ==
  IF Len(freeChairs) = 0
  THEN PlanRecord(rideSeq, {}, <<>>, <<>>)
  ELSE SolvedPlan(rideSeq, freeChairs, cm, hungarianMethod(cm))

(* internal_handlers.go:102-141: cost matrix, solver, real pairs *)
PlanOptimalFrom(R, C, rideSeq, freeChairs) ==
  MatchRidesToChairs(rideSeq, freeChairs, BuildCostMatrix(R, C, rideSeq, freeChairs))

(* internal_handlers.go:20-141: the two reads and what is computed from them *)
PlanOptimal(R, S, C, chairsWithModel) ==
  PlanOptimalFrom(R, C, SelectEligibleRides(R, S), FreeChairsOptimal(C, chairsWithModel))

(* part_002:25-156: reads and the greedy loop; one plan per iteration order *)
PlansGreedy(R, S, C, chairsWithModel) ==
  LET rideSeq    == SelectEligibleRides(R, S)
      freeChairs == FreeChairsGreedy(C, chairsWithModel)
  IN IF Len(rideSeq) = 0 \/ freeChairs = {}
     THEN { PlanRecord(rideSeq, freeChairs, <<>>, <<>>) }
     ELSE { PlanRecord(rideSeq, freeChairs, <<>>, a) :
              a \in GreedyAssignments(R, C, rideSeq, 1, freeChairs) }

(* the result of one invocation: the store it leaves, the HTTP status code *)
(* and the record of what it read and decided                              *)
Result(db, code, cyc) ==
  [rides |-> db.rides, ride_statuses |-> db.ride_statuses, code |-> code, cycle |-> cyc]

(* the commit phase and the final tx.Commit(),                             *)
(* internal_handlers.go:143-160 / part_002:158-199                         *)
CommitPhase(db, plan, writes, fail) ==
  IF Len(plan.assignments) = 0
  THEN Result(Rollback(db, db), 204, plan)
  ELSE IF fail.at = "exec" /\ fail.k <= Len(writes)
  THEN Result(Rollback(db, ExecWrites(db, writes, fail.k - 1)), 500, plan)
  ELSE IF fail.at = "commit"
  THEN Result(Rollback(db, ExecWrites(db, writes, Len(writes))), 500, plan)
  ELSE Result(Commit(db, ExecWrites(db, writes, Len(writes))), 204,
              [plan EXCEPT !.committed = TRUE])

(* the handler answering 500 when no free chair is left *)
RunOptimal_NoChairsIsError(db, plan, fail) ==
  IF fail.at = "begin" THEN Result(db, 500, NoCycle)
  ELSE IF fail.at = "rides" THEN Result(Rollback(db, db), 204, NoCycle)
  ELSE IF fail.at = "chairs" THEN Result(Rollback(db, db), 500, NoCycle)
  ELSE IF Len(plan.freeChairs) = 0 THEN Result(Rollback(db, db), 500, plan)
  ELSE CommitPhase(db, plan, WritesOptimal(plan.assignments), fail)

(* internal_handlers.go:9-161, plan being what the invocation computes     *)
(* from its reads when they succeed                                        *)
RunOptimal(db, plan, fail) ==
  IF fail.at = "begin" THEN Result(db, 500, NoCycle)
  ELSE IF fail.at = "rides" THEN Result(Rollback(db, db), 204, NoCycle)
  ELSE IF fail.at = "chairs" THEN Result(Rollback(db, db), 500, NoCycle)
  ELSE IF Len(plan.freeChairs) = 0 THEN Result(Rollback(db, db), 204, plan)
  ELSE CommitPhase(db, plan, WritesOptimal(plan.assignments), fail)

(* part_002:12-200 *)
RunGreedy(db, plan, fail) ==
  IF fail.at = "begin" THEN Result(db, 500, NoCycle)
  ELSE IF fail.at = "rides" THEN Result(Rollback(db, db), 500, NoCycle)
  ELSE IF Len(plan.rides) = 0 THEN Result(Rollback(db, db), 204, plan)
  ELSE IF fail.at = "chairs" THEN Result(Rollback(db, db), 500, NoCycle)
  ELSE IF Len(plan.freeChairs) = 0 THEN Result(Rollback(db, db), 204, plan)
  ELSE CommitPhase(db, plan, WritesGreedy(plan.assignments), fail)

(* a failure is an input only where the handler reaches the statement *)
FailureReached(res, fail) ==
  \/ fail.at = "none"
  \/ fail.at \in {"begin", "rides", "chairs"} /\ ~res.cycle.read
  \/ fail.at \in {"exec", "commit"} /\ res.cycle.read /\ res.code = 500

Store == [rides |-> rides, ride_statuses |-> ride_statuses]

(* the inputs of an invocation are the order in which the chairs SELECT    *)
(* returns its rows and the statement at which the store fails             *)
internalGetMatching ==
  /\ strategy = "optimal"
  /\ \E chairsWithModel \in Orders(SelectChairsWithModel(rides, ride_statuses, chairs)) :
       \E plan \in { PlanOptimal(rides, ride_statuses, chairs, chairsWithModel) } :
         \E fail \in Failures :
           \E res \in { RunOptimal(Store, plan, fail) } :
             /\ FailureReached(res, fail)
             /\ rides' = res.rides
             /\ ride_statuses' = res.ride_statuses
             /\ cycle' = res.cycle
             /\ resp' = [op |-> "matching", code |-> res.code, fail |-> fail]
  /\ UNCHANGED <<chairs, strategy, tx, hm, app_sent_at, coupons, users>>

(* the rows go into the map freeChairs, which forgets their order *)
internalGetMatchingGreedy ==
  /\ strategy = "greedy"
  /\ \E plan \in PlansGreedy(rides, ride_statuses, chairs,
                              OrderedIDs(SelectChairsWithModel(rides, ride_statuses, chairs),
                                         1, NumChairs)) :
       \E fail \in Failures :
         \E res \in { RunGreedy(Store, plan, fail) } :
           /\ FailureReached(res, fail)
           /\ rides' = res.rides
           /\ ride_statuses' = res.ride_statuses
           /\ cycle' = res.cycle
           /\ resp' = [op |-> "matching", code |-> res.code, fail |-> fail]
  /\ UNCHANGED <<chairs, strategy, tx, hm, app_sent_at, coupons, users>>

(* The pairing of part_003:10-98: one available chair taken at random for  *)
(* the oldest ride without a chair, written outside any transaction.       *)

(* COUNT(rs.chair_sent_at) of the rows of every ride: chair_sent_at is set *)
(* by the chair notification flow, so any number of rows may carry it      *)
ChairSentCounts(S) ==
  { f \in [DOMAIN S -> 0..6] : \A r \in DOMAIN S : f[r] <= Len(S[r]) }

(* the WHERE clause of available_chairs, part_003:15-25: an active chair   *)
(* for which no ride of the chair has six status rows sent to the chair    *)
AvailableChairs(R, C, chairSent) ==
  { c \in DOMAIN C :
      /\ C[c].is_active
      /\ ~ \E r \in RideIDs(R) : R[r].chair_id = c /\ chairSent[r] = 6 }

(* WHERE rides.chair_id IS NULL ORDER BY rides.created_at, part_003:29-34 *)
SelectRidesWithoutChair(R) ==
  OrderedIDs({ r \in RideIDs(R) : R[r].chair_id = NULL }, 1, Len(R))

(* part_003:13-49: ORDER BY RAND() LIMIT 1 keeps any one available chair,  *)
(* LIMIT 1 of the outer query the oldest ride                              *)
PlansRandom(R, C, chairSent) ==
  IF Len(SelectRidesWithoutChair(R)) = 0 \/ AvailableChairs(R, C, chairSent) = {}
  THEN { PlanRecord(<<>>, AvailableChairs(R, C, chairSent), <<>>, <<>>) }
  ELSE { PlanRecord(SubSeq(SelectRidesWithoutChair(R), 1, 1),
                    AvailableChairs(R, C, chairSent), <<>>,
                    << [RideID |-> SelectRidesWithoutChair(R)[1], ChairID |-> c] >>) :
           c \in AvailableChairs(R, C, chairSent) }

(* part_003:41-97: the statements run on db, so nothing is rolled back *)
RunRandom(db, plan, fail) ==
  IF fail.at = "rides" THEN Result(db, 500, NoCycle)
  ELSE IF Len(plan.assignments) = 0 THEN Result(db, 204, plan)
  ELSE IF fail.at = "exec" THEN Result(db, 500, plan)
  ELSE Result(ExecWrites(db, WritesOptimal(plan.assignments), 1), 204,
              [plan EXCEPT !.committed = TRUE])

internalGetMatchingRandom ==
  /\ strategy = "random"
  /\ \E chairSent \in ChairSentCounts(ride_statuses) :
       \E plan \in PlansRandom(rides, chairs, chairSent) :
         \E fail \in { NoFailure, [at |-> "rides", k |-> 0], [at |-> "exec", k |-> 1] } :
           \E res \in { RunRandom(Store, plan, fail) } :
             /\ FailureReached(res, fail)
             /\ rides' = res.rides
             /\ ride_statuses' = res.ride_statuses
             /\ cycle' = res.cycle
             /\ resp' = [op |-> "matching", code |-> res.code, fail |-> fail]
  /\ UNCHANGED <<chairs, strategy, tx, hm, app_sent_at, coupons, users>>


----------------------------------------------------------------------------
(* The ride handlers *)

Evaluations == {0, 5, 6}

(* Go's int is a two's complement integer of 64 bits; the model keeps the  *)
(* wrap-around with IntBits bits. Coordinates that fit the INT columns of  *)
(* rides stay far below the width in both: farePerDistance times the       *)
(* greatest distance of two stored points is less than MaxInt.             *)
IntBits == 16

MinInt == 0 - 2^(IntBits - 1)

MaxInt == 2^(IntBits - 1) - 1

wrapInt(x) == ((x - MinInt) % (2^IntBits)) + MinInt

(* abs and calculateDistance on int, internal_handlers.go:845-853 *)
absInt(a) == IF a < 0 THEN wrapInt(0 - a) ELSE a

calculateDistanceInt(aLatitude, aLongitude, bLatitude, bLongitude) ==
  wrapInt(absInt(wrapInt(aLatitude - bLatitude)) + absInt(wrapInt(aLongitude - bLongitude)))

(* the fare constants of package main *)
initialFare == 500

farePerDistance == 100

(* initialFare + max(meteredFare-discount, 0),                             *)
(* internal_handlers.go:1455-1458 and 1513-1515                            *)
discountedFare(meteredFare, discount) ==
  wrapInt(initialFare + Max2(wrapInt(meteredFare - discount), 0))

(* internal_handlers.go:1413-1416 *)
calculateFare(pickupLatitude, pickupLongitude, destLatitude, destLongitude) ==
  wrapInt(initialFare
          + wrapInt(farePerDistance
                    * calculateDistanceInt(pickupLatitude, pickupLongitude,
                                           destLatitude, destLongitude)))

(* coupons: the rows in created_at order; code is <<kind, invitation code, *)
(* stamp>> for 'CP_NEW2024', 'INV_<code>' and 'RWD_<code>_<milliseconds>'  *)
CP_NEW2024 == << "CP_NEW2024", 0, 0 >>

INV(code) == << "INV", code, 0 >>

RWD(code, stamp) == << "RWD", code, stamp >>

NewCoupon(user, code, discount) ==
  [user_id |-> user, code |-> code, discount |-> discount, used_by |-> NULL]

FirstRow(rows) == CHOOSE k \in rows : \A j \in rows : k <= j

(* ... WHERE user_id = ? AND code = 'CP_NEW2024' AND used_by IS NULL *)
UnusedNewUserCoupons(C, userID) ==
  { k \in DOMAIN C : C[k].user_id = userID /\ C[k].code = CP_NEW2024 /\ C[k].used_by = NULL }

(* ... WHERE user_id = ? AND used_by IS NULL ORDER BY created_at LIMIT 1 *)
UnusedCoupons(C, userID) ==
  { k \in DOMAIN C : C[k].user_id = userID /\ C[k].used_by = NULL }

(* SELECT * FROM coupons WHERE used_by = ? *)
CouponsUsedBy(C, rideID) == { k \in DOMAIN C : C[k].used_by = rideID }

(* the row tx.GetContext can scan into coupon in calculateDiscountedFare   *)
(* (a SELECT without ORDER BY returns its rows in any order and Get keeps  *)
(* the first), NULL when every SELECT ends in sql.ErrNoRows;               *)
(* rideID = NULL stands for ride == nil                                    *)
FareCoupons(C, userID, rideID) ==
  IF rideID # NULL
  THEN (IF CouponsUsedBy(C, rideID) # {} THEN CouponsUsedBy(C, rideID) ELSE {NULL})
  ELSE IF UnusedNewUserCoupons(C, userID) # {} THEN UnusedNewUserCoupons(C, userID)
  ELSE IF UnusedCoupons(C, userID) # {} THEN {FirstRow(UnusedCoupons(C, userID))}
  ELSE {NULL}

(* internal_handlers.go:1418-1459, row being the coupon the reads found *)
calculateDiscountedFare(R, C, rideID, pickup, dest, row) ==
  LET from == IF rideID # NULL
              THEN << R[rideID].pickup_latitude, R[rideID].pickup_longitude >> ELSE pickup
      to   == IF rideID # NULL
              THEN << R[rideID].destination_latitude, R[rideID].destination_longitude >> ELSE dest
      discount == IF row = NULL THEN 0 ELSE C[row].discount
  IN  discountedFare(wrapInt(farePerDistance
                             * calculateDistanceInt(from[1], from[2], to[1], to[2])),
                     discount)

(* couponMap of calculateFaresForRides: usedCoupons is the sequence of     *)
(* rows the SELECT returned, and a later row replaces an earlier one of    *)
(* the same ride; NULL when the map has no entry                           *)
couponMap(C, usedCoupons, rideID) ==
  IF \E i \in DOMAIN usedCoupons : C[usedCoupons[i]].used_by = rideID
  THEN usedCoupons[CHOOSE i \in DOMAIN usedCoupons :
                     /\ C[usedCoupons[i]].used_by = rideID
                     /\ \A j \in DOMAIN usedCoupons :
                          C[usedCoupons[j]].used_by = rideID => j <= i]
  ELSE NULL

(* SELECT * FROM coupons WHERE used_by IN (?), in any order *)
UsedCouponReads(C, rideIDs) ==
  Orders({ k \in DOMAIN C : C[k].used_by \in rideIDs })

(* the map that charges every ride without a discount *)
calculateFaresForRides_NoDiscount(R, C, rideIDs, usedCoupons) ==
  [r \in rideIDs |->
     discountedFare(wrapInt(farePerDistance
                            * calculateDistanceInt(R[r].pickup_latitude, R[r].pickup_longitude,
                                R[r].destination_latitude, R[r].destination_longitude)),
                    0)]

(* internal_handlers.go:1461-1521: the map from the ids of the given rides *)
(* to their fares (the empty map for no ride)                              *)
calculateFaresForRides(R, C, rideIDs, usedCoupons) ==
  [r \in rideIDs |->
     discountedFare(wrapInt(farePerDistance
                            * calculateDistanceInt(R[r].pickup_latitude, R[r].pickup_longitude,
                                R[r].destination_latitude, R[r].destination_longitude)),
                    IF couponMap(C, usedCoupons, r) = NULL THEN 0
                    ELSE C[couponMap(C, usedCoupons, r)].discount)]

(* the coupon appPostRides binds to the ride it created,                   *)
(* internal_handlers.go:714-771: rideCount counts the user's rides with    *)
(* the new one; the UPDATE sets used_by on every row of the user that      *)
(* carries the code of the coupon read                                     *)
BindCoupon(C, userID, rideID, rideCount) ==
  LET found == IF rideCount = 1 /\ UnusedNewUserCoupons(C, userID) # {}
               THEN UnusedNewUserCoupons(C, userID)
               ELSE IF UnusedCoupons(C, userID) # {}
               THEN {FirstRow(UnusedCoupons(C, userID))}
               ELSE {}
  IN  [k \in DOMAIN C |->
         IF \E f \in found : C[k].user_id = userID /\ C[k].code = C[f].code
         THEN [C[k] EXCEPT !.used_by = rideID]
         ELSE C[k]]

(* the COUNT of the rides WHERE user_id = ?, internal_handlers.go:714 *)
rideCount(R, userID) == Cardinality({ r \in RideIDs(R) : R[r].user_id = userID })

NewRide(user, pickup, dest) ==
  [user_id |-> user, pickup_latitude |-> pickup[1], pickup_longitude |-> pickup[2],
   destination_latitude |-> dest[1], destination_longitude |-> dest[2],
   chair_id |-> NULL, evaluation |-> NULL]

(* statusMap[ride.ID] of appPostRides; "" when the ride has no status row *)
StatusMapEntry(S, r) ==
  IF LatestStatusRows(S[r]) = {} THEN "" ELSE CHOOSE st \in LatestStatusRows(S[r]) : TRUE

(* internal_handlers.go:638-687 *)
continuingRideCount(R, S, user) ==
  Cardinality({ r \in RideIDs(R) :
                  /\ R[r].user_id = user
                  /\ StatusMapEntry(S, r) # "COMPLETED"
                  /\ StatusMapEntry(S, r) # "" })

(* the users a request can come from: user ids are opaque, so users are    *)
(* numbered in the order of their first ride                               *)
Requesters(R) ==
  { u \in Users : \A v \in 1..(u - 1) : \E r \in RideIDs(R) : R[r].user_id = v }

(* internal_handlers.go:616-794 (the fare of the response is not modelled). *)
(* The request of a user with a continuing ride returns 409 before any     *)
(* write, and a failing statement or commit rolls the transaction back:    *)
(* both leave the state as it is.                                          *)
appPostRides ==
  /\ Len(rides) < MaxRides
  /\ \E user \in Requesters(rides), pickup \in Pickups, dest \in Destinations :
       /\ ~(continuingRideCount(rides, ride_statuses, user) > 0)
       /\ rides' = Append(rides, NewRide(user, pickup, dest))
       /\ ride_statuses' = Append(ride_statuses, << "MATCHING" >>)
       /\ coupons' = BindCoupon(coupons, user, Len(rides) + 1, rideCount(rides, user) + 1)
  /\ resp' = [op |-> "postRides", code |-> 202, fail |-> NoFailure]
  /\ cycle' = NoCycle
  /\ UNCHANGED <<chairs, strategy, tx, hm, app_sent_at, users>>

(* appPostRides with its failures: the statement at which the store fails  *)
(* is an input, "after" standing for the statements between the two        *)
(* inserts and the commit (ride count, coupons, fare)                      *)
PostRidesFailures ==
  {"none", "begin", "selectRides", "selectStatuses", "insertRide", "insertStatus",
   "after", "commit"}

(* the handler inserting no status row *)
InsertInitialStatus_None(db) == db

(* INSERT INTO rides (...) VALUES (...), internal_handlers.go:694-702 *)
InsertRide(db, ride) == [db EXCEPT !.rides = Append(@, ride)]

(* INSERT INTO ride_statuses (id, ride_id, status) VALUES (?, ?, 'MATCHING'), *)
(* internal_handlers.go:704-711                                            *)
InsertInitialStatus(db) == [db EXCEPT !.ride_statuses = Append(@, << "MATCHING" >>)]

(* internal_handlers.go:616-794 *)
RunPostRides(db, user, pickup, dest, failAt) ==
  IF failAt = "begin" THEN Result(db, 500, NoCycle)
  ELSE IF failAt \in {"selectRides", "selectStatuses"} THEN Result(Rollback(db, db), 500, NoCycle)
  ELSE IF continuingRideCount(db.rides, db.ride_statuses, user) > 0
  THEN Result(Rollback(db, db), 409, NoCycle)
  ELSE IF failAt = "insertRide" THEN Result(Rollback(db, db), 500, NoCycle)
  ELSE IF failAt = "insertStatus"
  THEN Result(Rollback(db, InsertRide(db, NewRide(user, pickup, dest))), 500, NoCycle)
  ELSE IF failAt \in {"after", "commit"}
  THEN Result(Rollback(db, InsertInitialStatus(InsertRide(db, NewRide(user, pickup, dest)))),
              500, NoCycle)
  ELSE Result(Commit(db, InsertInitialStatus(InsertRide(db, NewRide(user, pickup, dest)))),
              202, NoCycle)

(* a failure is an input only where the handler reaches the statement *)
PostRidesFailureReached(R, user, failAt, code) ==
  /\ failAt = "selectStatuses" => \E r \in RideIDs(R) : R[r].user_id = user
  /\ failAt \in {"insertRide", "insertStatus", "after", "commit"} => code = 500

appPostRidesTx ==
  /\ Len(rides) < MaxRides
  /\ \E user \in Requesters(rides), pickup \in Pickups, dest \in Destinations :
       \E failAt \in PostRidesFailures :
         \E res \in { RunPostRides(Store, user, pickup, dest, failAt) } :
           /\ PostRidesFailureReached(rides, user, failAt, res.code)
           /\ rides' = res.rides
           /\ ride_statuses' = res.ride_statuses
           /\ coupons' = IF res.code = 202
                         THEN BindCoupon(coupons, user, Len(rides) + 1, rideCount(rides, user) + 1)
                         ELSE coupons
           /\ resp' = [op |-> "postRides", code |-> res.code, fail |-> [at |-> failAt, k |-> 0]]
  /\ cycle' = NoCycle
  /\ UNCHANGED <<chairs, strategy, tx, hm, app_sent_at, users>>

(* internal_handlers.go:863-986. An evaluation outside 1..5, an unknown    *)
(* ride and a ride that has not ARRIVED return before any write; a failing *)
(* statement, payment or commit rolls the transaction back.                *)
appPostRideEvaluatation ==
  /\ \E rideID \in RideIDs(rides), evaluation \in Evaluations :
       /\ ~(evaluation < 1 \/ evaluation > 5)
       /\ ~(getLatestRideStatus(ride_statuses, rideID) # "ARRIVED")
       /\ rides' = [rides EXCEPT ![rideID].evaluation = evaluation]
       /\ ride_statuses' = [ride_statuses EXCEPT ![rideID] = Append(@, "COMPLETED")]
  /\ resp' = [op |-> "evaluation", code |-> 200, fail |-> NoFailure]
  /\ cycle' = NoCycle
  /\ UNCHANGED <<chairs, strategy, tx, hm, app_sent_at, coupons, users>>

(* appPostRideEvaluatation with its answers and failures: the request      *)
(* names any ride id, known or not, and any evaluation; the statement at   *)
(* which the store fails is an input, "paymentToken" standing for a user   *)
(* without payment token, "gateway" for a payment the gateway refuses and  *)
(* "after" for the other statements between the insert and the commit      *)
EvaluationRequests == Evaluations \cup {1}

EvaluationFailures ==
  {"none", "begin", "selectRide", "latestStatus", "update", "insert",
   "paymentToken", "gateway", "after", "commit"}

(* the test accepting every evaluation from 1 up *)
evaluationOutOfRange_LowerOnly(evaluation) == evaluation < 1

(* if req.Evaluation < 1 || req.Evaluation > 5, internal_handlers.go:871 *)
evaluationOutOfRange(evaluation) == evaluation < 1 \/ evaluation > 5

(* UPDATE rides SET evaluation = ? WHERE id = ?, internal_handlers.go:904-907 *)
UpdateEvaluation(db, rideID, evaluation) ==
  [db EXCEPT !.rides[rideID].evaluation = evaluation]

(* INSERT INTO ride_statuses (id, ride_id, status) VALUES (?, ?, 'COMPLETED'), *)
(* internal_handlers.go:920-923                                            *)
InsertCompleted(db, rideID) ==
  [db EXCEPT !.ride_statuses[rideID] = Append(@, "COMPLETED")]

(* internal_handlers.go:863-986; RowsAffected counts the rows the UPDATE    *)
(* changes (the connection does not set clientFoundRows)                   *)
RunPostRideEvaluation(db, rideID, evaluation, failAt) ==
  IF evaluationOutOfRange(evaluation) THEN Result(db, 400, NoCycle)
  ELSE IF failAt = "begin" THEN Result(db, 500, NoCycle)
  ELSE IF failAt = "selectRide" THEN Result(Rollback(db, db), 500, NoCycle)
  ELSE IF rideID \notin RideIDs(db.rides) THEN Result(Rollback(db, db), 404, NoCycle)
  ELSE IF failAt = "latestStatus" \/ getLatestRideStatus(db.ride_statuses, rideID) = ""
  THEN Result(Rollback(db, db), 500, NoCycle)
  ELSE IF getLatestRideStatus(db.ride_statuses, rideID) # "ARRIVED"
  THEN Result(Rollback(db, db), 400, NoCycle)
  ELSE IF failAt = "update" THEN Result(Rollback(db, db), 500, NoCycle)
  ELSE IF db.rides[rideID].evaluation = evaluation
  THEN Result(Rollback(db, UpdateEvaluation(db, rideID, evaluation)), 404, NoCycle)
  ELSE IF failAt = "insert"
  THEN Result(Rollback(db, UpdateEvaluation(db, rideID, evaluation)), 500, NoCycle)
  ELSE IF failAt \in {"paymentToken", "gateway", "after", "commit"}
  THEN Result(Rollback(db, InsertCompleted(UpdateEvaluation(db, rideID, evaluation), rideID)),
              CASE failAt = "paymentToken" -> 400
                [] failAt = "gateway"      -> 502
                [] OTHER                   -> 500,
              NoCycle)
  ELSE Result(Commit(db, InsertCompleted(UpdateEvaluation(db, rideID, evaluation), rideID)),
              200, NoCycle)

(* a failure is an input only where the handler reaches the statement *)
EvaluationFailureReached(db, rideID, evaluation, failAt) ==
  \/ failAt = "none"
  \/ /\ ~evaluationOutOfRange(evaluation)
     /\ \/ failAt \in {"begin", "selectRide"}
        \/ /\ rideID \in RideIDs(db.rides)
           /\ \/ failAt = "latestStatus"
              \/ /\ getLatestRideStatus(db.ride_statuses, rideID) = "ARRIVED"
                 /\ \/ failAt = "update"
                    \/ /\ db.rides[rideID].evaluation # evaluation
                       /\ failAt \in {"insert", "paymentToken", "gateway", "after", "commit"}

appPostRideEvaluatationTx ==
  /\ \E rideID \in 1..(Len(rides) + 1), evaluation \in EvaluationRequests :
       \E failAt \in EvaluationFailures :
         \E res \in { RunPostRideEvaluation(Store, rideID, evaluation, failAt) } :
           /\ EvaluationFailureReached(Store, rideID, evaluation, failAt)
           /\ rides' = res.rides
           /\ ride_statuses' = res.ride_statuses
           /\ resp' = [op |-> "evaluation", code |-> res.code,
                       fail |-> [at |-> failAt, k |-> 0],
                       ride |-> rideID, evaluation |-> evaluation]
  /\ cycle' = NoCycle
  /\ UNCHANGED <<chairs, strategy, tx, hm, app_sent_at, coupons, users>>

(* the status a chair-side progress report moves a ride to *)
NextStatus(st) ==
  CASE st = "ENROUTE"  -> "PICKUP"
    [] st = "PICKUP"   -> "CARRYING"
    [] st = "CARRYING" -> "ARRIVED"

(* the worker-progress flow: it owns the transitions after ENROUTE up to   *)
(* ARRIVED of a ride that has a chair                                      *)
chairProgress ==
  /\ \E rideID \in RideIDs(rides) :
       /\ rides[rideID].chair_id # NULL
       /\ getLatestRideStatus(ride_statuses, rideID) \in {"ENROUTE", "PICKUP", "CARRYING"}
       /\ ride_statuses' = [ride_statuses EXCEPT ![rideID] =
                              Append(@, NextStatus(getLatestRideStatus(ride_statuses, rideID)))]
  /\ resp' = [op |-> "chairProgress", code |-> 204, fail |-> NoFailure]
  /\ cycle' = NoCycle
  /\ UNCHANGED <<rides, chairs, strategy, tx, hm, app_sent_at, coupons, users>>

(* SELECT * FROM rides WHERE user_id = ? ORDER BY created_at DESC LIMIT 1, *)
(* internal_handlers.go:1028; NULL stands for sql.ErrNoRows                *)
LatestRideOf(R, user) ==
  IF \E r \in RideIDs(R) : R[r].user_id = user
  THEN CHOOSE r \in RideIDs(R) :
         /\ R[r].user_id = user
         /\ \A q \in RideIDs(R) : R[q].user_id = user => q <= r
  ELSE NULL

(* the statement reading the newest unsent row *)
YetSentRideStatus_Newest(S, sent, rideID) ==
  IF \E k \in DOMAIN S[rideID] : <<rideID, k>> \notin sent
  THEN CHOOSE k \in DOMAIN S[rideID] :
         /\ <<rideID, k>> \notin sent
         /\ \A j \in DOMAIN S[rideID] : <<rideID, j>> \notin sent => j <= k
  ELSE NULL

(* SELECT * FROM ride_statuses WHERE ride_id = ? AND app_sent_at IS NULL   *)
(* ORDER BY created_at ASC LIMIT 1, internal_handlers.go:1043: the row of  *)
(* the ride's log, NULL standing for sql.ErrNoRows (yetSentRideStatus.ID   *)
(* stays "")                                                               *)
YetSentRideStatus(S, sent, rideID) ==
  IF \E k \in DOMAIN S[rideID] : <<rideID, k>> \notin sent
  THEN CHOOSE k \in DOMAIN S[rideID] :
         /\ <<rideID, k>> \notin sent
         /\ \A j \in DOMAIN S[rideID] : <<rideID, j>> \notin sent => k <= j
  ELSE NULL

NotificationFailures ==
  {"none", "begin", "selectRide", "selectStatus", "latestStatus", "fare", "chair",
   "update", "commit"}

(* the answer of appGetNotification: the HTTP code, the ride and status of *)
(* the response body, the row whose app_sent_at the call set (NULL: none)  *)
(* and the app_sent_at marks the call leaves                               *)
Notification(code, rideID, status, marked, sent) ==
  [code |-> code, ride |-> rideID, status |-> status, marked |-> marked, sent |-> sent]

(* UPDATE ride_statuses SET app_sent_at = CURRENT_TIMESTAMP(6) WHERE id = ?, *)
(* internal_handlers.go:1106-1112                                          *)
MarkSent(sent, rideID, row) ==
  IF row # NULL THEN sent \cup { <<rideID, row>> } ELSE sent

(* internal_handlers.go:1016-1120 *)
RunGetNotification(R, S, sent, user, failAt) ==
  IF failAt = "begin" THEN Notification(500, NULL, "", NULL, sent)
  ELSE IF failAt = "selectRide" THEN Notification(500, NULL, "", NULL, Rollback(sent, sent))
  ELSE IF LatestRideOf(R, user) = NULL THEN Notification(200, NULL, "", NULL, Rollback(sent, sent))
  ELSE
    LET rideID == LatestRideOf(R, user)
        row    == YetSentRideStatus(S, sent, rideID)
        status == IF row = NULL THEN getLatestRideStatus(S, rideID) ELSE S[rideID][row]
    IN  IF failAt = "selectStatus" THEN Notification(500, NULL, "", NULL, Rollback(sent, sent))
        ELSE IF row = NULL /\ (failAt = "latestStatus" \/ status = "")
        THEN Notification(500, NULL, "", NULL, Rollback(sent, sent))
        ELSE IF failAt = "fare" THEN Notification(500, NULL, "", NULL, Rollback(sent, sent))
        ELSE IF failAt = "chair" /\ R[rideID].chair_id # NULL
        THEN Notification(500, NULL, "", NULL, Rollback(sent, sent))
        ELSE IF failAt = "update" /\ row # NULL
        THEN Notification(500, NULL, "", NULL, Rollback(sent, sent))
        ELSE IF failAt = "commit"
        THEN Notification(500, NULL, "", NULL, Rollback(sent, MarkSent(sent, rideID, row)))
        ELSE Notification(200, rideID, status, row, Commit(sent, MarkSent(sent, rideID, row)))

(* a failure is an input only where the handler reaches the statement *)
NotificationFailureReached(R, S, sent, user, failAt) ==
  \/ failAt \in {"none", "begin", "selectRide"}
  \/ /\ LatestRideOf(R, user) # NULL
     /\ \/ failAt \in {"selectStatus", "fare", "commit"}
        \/ failAt = "latestStatus" /\ YetSentRideStatus(S, sent, LatestRideOf(R, user)) = NULL
        \/ failAt = "chair" /\ R[LatestRideOf(R, user)].chair_id # NULL
        \/ failAt = "update" /\ YetSentRideStatus(S, sent, LatestRideOf(R, user)) # NULL

appGetNotification ==
  /\ \E user \in Users, failAt \in NotificationFailures :
       \E res \in { RunGetNotification(rides, ride_statuses, app_sent_at, user, failAt) } :
         /\ NotificationFailureReached(rides, ride_statuses, app_sent_at, user, failAt)
         /\ app_sent_at' = res.sent
         /\ resp' = [op |-> "notification", code |-> res.code,
                     fail |-> [at |-> failAt, k |-> 0], user |-> user,
                     ride |-> res.ride, status |-> res.status, marked |-> res.marked]
  /\ cycle' = NoCycle
  /\ UNCHANGED <<rides, ride_statuses, chairs, strategy, tx, hm, coupons, users>>


(* the rows a registration commits, internal_handlers.go:277-349: the user *)
(* (its id is its row number and its invitation code is its own), its      *)
(* CP_NEW2024 coupon and, with an invitation code, its INV coupon and the  *)
(* reward of the inviter, whose code carries the time of the insert        *)
NewUser(id) == [invitation_code |-> id]

Inviters(U, code) == { u \in DOMAIN U : U[u].invitation_code = code }

Register(reg, invitation) ==
  LET id == Len(reg.users) + 1
      c1 == Append(reg.coupons, NewCoupon(id, CP_NEW2024, 3000))
      c2 == Append(c1, NewCoupon(id, INV(invitation), 1500))
      c3 == Append(c2, NewCoupon(FirstRow(Inviters(reg.users, invitation)),
                                 RWD(invitation, Len(c2) + 1), 1000))
  IN  [users |-> Append(reg.users, NewUser(id)),
       coupons |-> IF invitation = NULL THEN c1 ELSE c3]

(* internal_handlers.go:806-842; the request carries any two coordinates   *)
(* an int holds                                                            *)
EstimatePickups == { <<0, 0>>, <<MaxInt, MaxInt>> }

EstimateDestinations == { <<0, 0>>, <<1, 1>>, <<40, 0>> }

EstimateFailures == {"none", "bind", "begin", "fare", "commit"}

appPostRidesEstimatedFare ==
  /\ \E user \in Users, pickup \in EstimatePickups, dest \in EstimateDestinations :
       \E failAt \in EstimateFailures, row \in FareCoupons(coupons, user, NULL) :
         \E discounted \in { calculateDiscountedFare(rides, coupons, NULL, pickup, dest, row) } :
           resp' = [op |-> "estimatedFare",
                    code |-> CASE failAt = "none" -> 200
                               [] failAt = "bind" -> 400
                               [] OTHER -> 500,
                    fail |-> [at |-> failAt, k |-> 0],
                    user |-> user, pickup |-> pickup, dest |-> dest,
                    fare |-> IF failAt = "none" THEN discounted ELSE 0,
                    discount |-> IF failAt = "none"
                                 THEN wrapInt(calculateFare(pickup[1], pickup[2], dest[1], dest[2])
                                              - discounted)
                                 ELSE 0]
  /\ cycle' = NoCycle
  /\ UNCHANGED <<rides, ride_statuses, chairs, strategy, tx, hm, app_sent_at, coupons, users>>

(* appGetRides, internal_handlers.go:417-591: the fares of the user's      *)
(* COMPLETED rides, computed by calculateFaresForRides                     *)
completedRides(R, S, user) ==
  { r \in RideIDs(R) : R[r].user_id = user /\ StatusMapEntry(S, r) = "COMPLETED" }

appGetRides ==
  /\ \E user \in Users, failAt \in {"none", "query"} :
       \E usedCoupons \in UsedCouponReads(coupons, completedRides(rides, ride_statuses, user)) :
         resp' = [op |-> "getRides",
                  code |-> IF failAt = "none" THEN 200 ELSE 500,
                  fail |-> [at |-> failAt, k |-> 0],
                  user |-> user,
                  fares |-> IF failAt = "none"
                            THEN calculateFaresForRides(rides, coupons,
                                   completedRides(rides, ride_statuses, user), usedCoupons)
                            ELSE <<>>]
  /\ cycle' = NoCycle
  /\ UNCHANGED <<rides, ride_statuses, chairs, strategy, tx, hm, app_sent_at, coupons, users>>

----------------------------------------------------------------------------
(* Overlapping invocations of the matching cycle: every invocation reads   *)
(* its rides and chairs from one snapshot of the committed store and, in a *)
(* later step, executes its statements on the committed store and commits. *)

Procs == {1, 2}

TxIdle == [pc |-> "idle", assignments |-> <<>>]

Writes(strat, assignments) ==
  IF strat = "optimal" THEN WritesOptimal(assignments) ELSE WritesGreedy(assignments)

(* db.Beginx() and the two SELECTs, then the solver:                       *)
(* internal_handlers.go:12-141 / part_002:15-156                           *)
txRead(p) ==
  /\ tx[p].pc = "idle"
  /\ \E chairsWithModel \in Orders(SelectChairsWithModel(rides, ride_statuses, chairs)) :
       \E plan \in (IF strategy = "optimal"
                    THEN { PlanOptimal(rides, ride_statuses, chairs, chairsWithModel) }
                    ELSE PlansGreedy(rides, ride_statuses, chairs, chairsWithModel)) :
         tx' = [tx EXCEPT ![p] = [pc |-> "read", assignments |-> plan.assignments]]
  /\ resp' = [op |-> "txRead", code |-> 0, fail |-> NoFailure]
  /\ cycle' = NoCycle
  /\ UNCHANGED <<rides, ride_statuses, chairs, strategy, hm, app_sent_at, coupons, users>>

(* the commit phase of an invocation, internal_handlers.go:143-160 /       *)
(* part_002:158-199                                                        *)
txCommit(p) ==
  /\ tx[p].pc = "read"
  /\ \E fail \in {NoFailure, [at |-> "commit", k |-> 0]} :
       \E res \in { CommitPhase(Store,
                                [NoCycle EXCEPT !.read = TRUE, !.assignments = tx[p].assignments],
                                Writes(strategy, tx[p].assignments), fail) } :
         /\ FailureReached(res, fail)
         /\ rides' = res.rides
         /\ ride_statuses' = res.ride_statuses
         /\ cycle' = res.cycle
         /\ resp' = [op |-> "txCommit", code |-> res.code, fail |-> fail]
  /\ tx' = [tx EXCEPT ![p] = TxIdle]
  /\ UNCHANGED <<chairs, strategy, hm, app_sent_at, coupons, users>>

----------------------------------------------------------------------------
(* Overlapping ride creations: a request reads the rides of its user and   *)
(* their latest statuses with plain SELECTs inside its transaction, which  *)
(* take no lock, and in a later step inserts its two rows and commits;     *)
(* the inserts of two requests have different keys and do not conflict.    *)

(* db.Beginx(), the two SELECTs and the count, internal_handlers.go:631-687 *)
postRidesRead(p) ==
  /\ tx[p].pc = "idle"
  /\ \E user \in Requesters(rides), pickup \in Pickups, dest \in Destinations :
       tx' = [tx EXCEPT ![p] =
                [pc |-> "posting", assignments |-> <<>>,
                 ride |-> NewRide(user, pickup, dest),
                 continuingRideCount |-> continuingRideCount(rides, ride_statuses, user),
                 rideCount |-> rideCount(rides, user) + 1]]
  /\ resp' = [op |-> "postRidesRead", code |-> 0, fail |-> NoFailure]
  /\ cycle' = NoCycle
  /\ UNCHANGED <<rides, ride_statuses, chairs, strategy, hm, app_sent_at, coupons, users>>

(* the conflict test, the two INSERTs, the coupon of the ride (the count   *)
(* of the user's rides is read on the snapshot of the transaction, with    *)
(* its own ride) and tx.Commit(), internal_handlers.go:689-794             *)
postRidesCommit(p) ==
  /\ tx[p].pc = "posting"
  /\ Len(rides) < MaxRides
  /\ \E failAt \in {"none", "commit"} :
       \E res \in { IF tx[p].continuingRideCount > 0
                    THEN Result(Rollback(Store, Store), 409, NoCycle)
                    ELSE IF failAt = "commit"
                    THEN Result(Rollback(Store, InsertInitialStatus(InsertRide(Store, tx[p].ride))),
                                500, NoCycle)
                    ELSE Result(Commit(Store, InsertInitialStatus(InsertRide(Store, tx[p].ride))),
                                202, NoCycle) } :
         /\ failAt = "commit" => res.code = 500
         /\ rides' = res.rides
         /\ ride_statuses' = res.ride_statuses
         /\ coupons' = IF res.code = 202
                       THEN BindCoupon(coupons, tx[p].ride.user_id, Len(rides) + 1,
                                       tx[p].rideCount)
                       ELSE coupons
         /\ resp' = [op |-> "postRidesCommit", code |-> res.code,
                     fail |-> [at |-> failAt, k |-> 0]]
  /\ tx' = [tx EXCEPT ![p] = TxIdle]
  /\ cycle' = NoCycle
  /\ UNCHANGED <<chairs, strategy, hm, app_sent_at, users>>

----------------------------------------------------------------------------
(* Registrations. appPostUsers inserts the user and its CP_NEW2024 coupon  *)
(* and, for a request with an invitation code, reads the coupons of the    *)
(* code with SELECT ... FOR UPDATE: the locking read waits while another   *)
(* transaction that has read the same code is open, and the lock is held   *)
(* until the transaction commits or rolls back.                            *)

MaxRegistered == 5

(* the invitation codes of the requests; NULL for a request without one,   *)
(* and a code is unknown while its user is not registered                  *)
InvitationCodes == {NULL, 1, 2}

PostUsersFailures ==
  {"none", "bind", "begin", "insertUser", "insertCoupon", "selectCoupons", "selectInviter",
   "insertInvitation", "insertReward", "commit"}

(* the read without the lock *)
CodeLocked_Never(T, code, p) == FALSE

(* SELECT * FROM coupons WHERE code = ? FOR UPDATE,                        *)
(* internal_handlers.go:302: another open transaction holds the lock       *)
CodeLocked(T, code, p) ==
  \E q \in DOMAIN T : q # p /\ T[q].pc = "registering" /\ T[q].invitation = code

(* len(coupons) of internal_handlers.go:302-307 *)
InvitationCoupons(C, code) == { k \in DOMAIN C : C[k].code = INV(code) }

(* the answer of a registration: the tables it leaves, the HTTP code and   *)
(* the reason of a rejected invitation code                                *)
Registration(reg, code, rejected) ==
  [users |-> reg.users, coupons |-> reg.coupons, code |-> code, rejected |-> rejected]

(* internal_handlers.go:254-310: up to the test of the redemptions;        *)
(* "proceed" when the handler goes on                                      *)
RunPostUsersRead(reg, invitation, failAt) ==
  IF failAt = "bind" THEN Registration(reg, 400, "none")
  ELSE IF failAt = "begin" THEN Registration(reg, 500, "none")
  ELSE IF failAt = "insertUser" THEN Registration(Rollback(reg, reg), 500, "none")
  ELSE IF failAt = "insertCoupon"
  THEN Registration(Rollback(reg, [reg EXCEPT !.users = Append(@, NewUser(Len(@) + 1))]),
                    500, "none")
  ELSE IF invitation = NULL THEN Registration(reg, 0, "proceed")
  ELSE IF failAt = "selectCoupons"
  THEN Registration(Rollback(reg, Register(reg, NULL)), 500, "none")
  ELSE IF Cardinality(InvitationCoupons(reg.coupons, invitation)) >= 3
  THEN Registration(Rollback(reg, Register(reg, NULL)), 400, "exhausted")
  ELSE IF failAt = "selectInviter"
  THEN Registration(Rollback(reg, Register(reg, NULL)), 500, "none")
  ELSE IF Inviters(reg.users, invitation) = {}
  THEN Registration(Rollback(reg, Register(reg, NULL)), 400, "unknown")
  ELSE Registration(reg, 0, "proceed")

(* internal_handlers.go:324-361: the coupons of the invitation and the     *)
(* commit                                                                  *)
RunPostUsersWrite(reg, invitation, failAt) ==
  IF failAt = "insertInvitation"
  THEN Registration(Rollback(reg, Register(reg, NULL)), 500, "none")
  ELSE IF failAt \in {"insertReward", "commit"}
  THEN Registration(Rollback(reg, Register(reg, invitation)), 500, "none")
  ELSE Registration(Commit(reg, Register(reg, invitation)), 201, "none")

(* internal_handlers.go:254-361 *)
RunPostUsers(reg, invitation, failAt) ==
  IF RunPostUsersRead(reg, invitation, failAt).rejected = "proceed"
  THEN RunPostUsersWrite(reg, invitation, failAt)
  ELSE RunPostUsersRead(reg, invitation, failAt)

(* a failure is an input only where the handler reaches the statement *)
PostUsersFailureReached(reg, invitation, failAt) ==
  \/ failAt \in {"none", "bind", "begin", "insertUser", "insertCoupon", "commit"}
  \/ /\ invitation # NULL
     /\ \/ failAt = "selectCoupons"
        \/ /\ Cardinality(InvitationCoupons(reg.coupons, invitation)) < 3
           /\ \/ failAt = "selectInviter"
              \/ /\ Inviters(reg.users, invitation) # {}
                 /\ failAt \in {"insertInvitation", "insertReward"}

Registry == [users |-> users, coupons |-> coupons]

(* a registration that runs alone *)
appPostUsers ==
  /\ Len(users) < MaxRegistered
  /\ \E invitation \in InvitationCodes, failAt \in PostUsersFailures :
       \E res \in { RunPostUsers(Registry, invitation, failAt) } :
         /\ PostUsersFailureReached(Registry, invitation, failAt)
         /\ failAt \in {"bind", "begin", "insertUser", "insertCoupon"}
              \/ invitation = NULL \/ ~CodeLocked(tx, invitation, 0)
         /\ users' = res.users
         /\ coupons' = res.coupons
         /\ resp' = [op |-> "postUsers", code |-> res.code, fail |-> [at |-> failAt, k |-> 0],
                     invitation |-> invitation, rejected |-> res.rejected]
  /\ cycle' = NoCycle
  /\ UNCHANGED <<rides, ride_statuses, chairs, strategy, tx, hm, app_sent_at>>

(* the first part of a registration with an invitation code that overlaps  *)
(* others: the two inserts (rows no other transaction sees before the      *)
(* commit), the locking read and the two tests                             *)
postUsersRead(p) ==
  /\ tx[p].pc = "idle"
  /\ Len(users) < MaxRegistered
  /\ \E invitation \in InvitationCodes \ {NULL} :
       \E failAt \in {"none", "selectCoupons", "selectInviter"} :
         \E res \in { RunPostUsersRead(Registry, invitation, failAt) } :
           /\ PostUsersFailureReached(Registry, invitation, failAt)
           /\ ~CodeLocked(tx, invitation, p)
           /\ tx' = [tx EXCEPT ![p] =
                       IF res.rejected = "proceed"
                       THEN [pc |-> "registering", assignments |-> <<>>,
                             invitation |-> invitation]
                       ELSE TxIdle]
           /\ users' = res.users
           /\ coupons' = res.coupons
           /\ resp' = [op |-> "postUsersRead", code |-> res.code,
                       fail |-> [at |-> failAt, k |-> 0],
                       invitation |-> invitation, rejected |-> res.rejected]
  /\ cycle' = NoCycle
  /\ UNCHANGED <<rides, ride_statuses, chairs, strategy, hm, app_sent_at>>

(* the second part: the inserts of the two coupons and tx.Commit() *)
postUsersWrite(p) ==
  /\ tx[p].pc = "registering"
  /\ \E failAt \in {"none", "insertInvitation", "insertReward", "commit"} :
       \E res \in { RunPostUsersWrite(Registry, tx[p].invitation, failAt) } :
         /\ users' = res.users
         /\ coupons' = res.coupons
         /\ resp' = [op |-> "postUsersWrite", code |-> res.code,
                     fail |-> [at |-> failAt, k |-> 0],
                     invitation |-> tx[p].invitation, rejected |-> res.rejected]
  /\ tx' = [tx EXCEPT ![p] = TxIdle]
  /\ cycle' = NoCycle
  /\ UNCHANGED <<rides, ride_statuses, chairs, strategy, hm, app_sent_at>>

----------------------------------------------------------------------------
(* hungarianMethod applied to the matrices a cycle can build: n rides and  *)
(* m chairs with real costs 0..MaxCost, padded to a square with largeCost  *)

PaddedMatrix(real, n, m) ==
  [i \in 1..Max2(n, m) |-> [j \in 1..Max2(n, m) |->
     IF i <= n /\ j <= m THEN real[i][j] ELSE largeCost]]

NoMatrix == [costMatrix |-> <<>>, assignment |-> <<>>, solved |-> FALSE]

solve ==
  /\ ~hm.solved
  /\ hm' = [hm EXCEPT !.assignment = hungarianMethod(hm.costMatrix), !.solved = TRUE]
  /\ UNCHANGED <<rides, ride_statuses, chairs, strategy, cycle, resp, tx, app_sent_at, coupons, users>>

----------------------------------------------------------------------------
(* Specifications *)

InitStore ==
  /\ rides = <<>>
  /\ ride_statuses = <<>>
  /\ chairs \in Fleets
  /\ strategy \in Strategies
  /\ cycle = NoCycle
  /\ resp = [op |-> "init", code |-> 0, fail |-> NoFailure]
  /\ tx = [p \in Procs |-> TxIdle]
  /\ app_sent_at = {}
  /\ coupons = <<>>
  /\ users = <<>>

Init ==
  /\ InitStore
  /\ hm = NoMatrix

Next ==
  \/ appPostRides
  \/ internalGetMatching
  \/ internalGetMatchingGreedy
  \/ chairProgress
  \/ appPostRideEvaluatation

Spec == Init /\ [][Next]_vars

NextTx ==
  \/ appPostRides
  \/ \E p \in Procs : txRead(p)
  \/ \E p \in Procs : txCommit(p)

(* overlapping invocations are studied on fleets of schedulable chairs *)
InitTx ==
  /\ Init
  /\ \A c \in ChairIDs :
       /\ chairs[c].is_active
       /\ chairs[c].last_latitude.Valid /\ chairs[c].last_longitude.Valid
       /\ chairs[c].speed > 0

SpecTx == InitTx /\ [][NextTx]_vars

NextPostTx ==
  \/ \E p \in Procs : postRidesRead(p)
  \/ \E p \in Procs : postRidesCommit(p)

SpecPostTx == InitTx /\ [][NextPostTx]_vars

NextRandom ==
  \/ appPostRides
  \/ internalGetMatchingRandom

InitRandom ==
  /\ rides = <<>>
  /\ ride_statuses = <<>>
  /\ chairs \in Fleets
  /\ strategy = "random"
  /\ cycle = NoCycle
  /\ resp = [op |-> "init", code |-> 0, fail |-> NoFailure]
  /\ tx = [p \in Procs |-> TxIdle]
  /\ app_sent_at = {}
  /\ coupons = <<>>
  /\ users = <<>>
  /\ hm = NoMatrix

SpecRandom == InitRandom /\ [][NextRandom]_vars

(* The greedy cycle on stores of pending rides: up to MaxPending rides of  *)
(* different users, all MATCHING and without a chair, and a fleet of free  *)
(* located chairs                                                          *)
PendingPickups == { <<1, 1>>, <<9, 9>>, <<2, 2>> }

PendingChairKinds ==
  << [is_active |-> TRUE, last_latitude |-> SomeInt(0),  last_longitude |-> SomeInt(0),  speed |-> 1],
     [is_active |-> TRUE, last_latitude |-> SomeInt(10), last_longitude |-> SomeInt(10), speed |-> 5],
     [is_active |-> TRUE, last_latitude |-> SomeInt(2),  last_longitude |-> SomeInt(2),  speed |-> 1] >>

PendingFleets ==
  { [c \in ChairIDs |-> PendingChairKinds[f[c]]] :
      f \in { g \in [ChairIDs -> DOMAIN PendingChairKinds] :
                \A a, b \in ChairIDs : a < b => g[a] <= g[b] } }

InitPending ==
  /\ \E n \in 1..MaxPending :
       \E pickups \in [1..n -> PendingPickups] :
         /\ rides = [r \in 1..n |-> NewRide(r, pickups[r], <<1, 1>>)]
         /\ ride_statuses = [r \in 1..n |-> << "MATCHING" >>]
  /\ chairs \in PendingFleets
  /\ strategy = "greedy"
  /\ cycle = NoCycle
  /\ resp = [op |-> "init", code |-> 0, fail |-> NoFailure]
  /\ tx = [p \in Procs |-> TxIdle]
  /\ app_sent_at = {}
  /\ coupons = <<>>
  /\ users = <<>>
  /\ hm = NoMatrix

SpecGreedy == InitPending /\ [][internalGetMatchingGreedy]_vars

(* The optimal cycle on stores of pending rides whose coordinates are any  *)
(* integers a request can carry: appPostRides checks only that both        *)
(* coordinates are present, and the columns are INT                        *)
DistantDestinations == { <<1, 1>>, <<5000000, 0>> }

InitDistant ==
  /\ \E n \in 1..MaxRides :
       \E pickups \in [1..n -> Pickups], dests \in [1..n -> DistantDestinations] :
         /\ rides = [r \in 1..n |-> NewRide(r, pickups[r], dests[r])]
         /\ ride_statuses = [r \in 1..n |-> << "MATCHING" >>]
  /\ chairs \in Fleets
  /\ strategy = "optimal"
  /\ cycle = NoCycle
  /\ resp = [op |-> "init", code |-> 0, fail |-> NoFailure]
  /\ tx = [p \in Procs |-> TxIdle]
  /\ app_sent_at = {}
  /\ coupons = <<>>
  /\ users = <<>>
  /\ hm = NoMatrix

SpecDistant == InitDistant /\ [][internalGetMatching]_vars

(* The cost model applied to one ride and a fleet of located chairs with  *)
(* coordinates in -MaxCoord..MaxCoord and speeds in 1..MaxSpeed: the row   *)
(* of the cost matrix of the optimal cycle, followed by the time estimates *)
(* of the greedy cycle                                                     *)
Coords == (0 - MaxCoord)..MaxCoord

InitCost ==
  /\ \E lat \in Coords, dest \in { <<0, 0>>, <<1, 1>> } :
       rides = << NewRide(1, <<lat, 0>>, dest) >>
  /\ ride_statuses = << << "MATCHING" >> >>
  /\ \E lats \in [ChairIDs -> Coords], speeds \in [ChairIDs -> 1..MaxSpeed] :
       chairs = [c \in ChairIDs |->
                   [is_active |-> TRUE, last_latitude |-> SomeInt(lats[c]),
                    last_longitude |-> SomeInt(1), speed |-> speeds[c]]]
  /\ strategy \in Strategies
  /\ cycle = NoCycle
  /\ resp = [op |-> "init", code |-> 0, fail |-> NoFailure]
  /\ tx = [p \in Procs |-> TxIdle]
  /\ app_sent_at = {}
  /\ coupons = <<>>
  /\ users = <<>>
  /\ hm = NoMatrix

estimateCosts ==
  /\ ~cycle.read
  /\ cycle' = [NoCycle EXCEPT
                 !.read = TRUE,
                 !.rides = <<1>>,
                 !.freeChairs = [c \in ChairIDs |-> c],
                 !.costs = IF strategy = "optimal"
                           THEN [c \in ChairIDs |->
                                   CostCell(rides, chairs, <<1>>, [d \in ChairIDs |-> d], 1, c)]
                           ELSE [c \in ChairIDs |-> TimeEstimate(rides[1], chairs[c])]]
  /\ resp' = [op |-> "estimate", code |-> 0, fail |-> NoFailure]
  /\ UNCHANGED <<rides, ride_statuses, chairs, strategy, tx, hm, app_sent_at, coupons, users>>

SpecCost == InitCost /\ [][estimateCosts]_vars

(* The ride handlers with their failures, the rides being served by the   *)
(* cycle, the progress reports and the evaluation                          *)
NextRides ==
  \/ appPostRidesTx
  \/ internalGetMatching
  \/ internalGetMatchingGreedy
  \/ chairProgress
  \/ appPostRideEvaluatation

SpecRides == Init /\ [][NextRides]_vars

(* Evaluation requests, with their answers and failures, on stores of      *)
(* rides that each have their own user and are either waiting for a chair  *)
(* or paired with their own chair by a committed greedy cycle, and that    *)
(* the progress reports drive to ARRIVED                                   *)
InitEvaluation ==
  /\ \E n \in 1..Min2(MaxRides, Min2(NumUsers, NumChairs)) :
       \E paired \in SUBSET (1..n) :
         /\ rides = [r \in 1..n |->
                      [NewRide(r, <<0, 0>>, <<1, 1>>) EXCEPT
                         !.chair_id = IF r \in paired THEN r ELSE NULL]]
         /\ ride_statuses = [r \in 1..n |->
                      IF r \in paired THEN << "MATCHING", "ENROUTE" >> ELSE << "MATCHING" >>]
  /\ chairs = [c \in ChairIDs |-> ChairKinds[1]]
  /\ strategy = "greedy"
  /\ cycle = NoCycle
  /\ resp = [op |-> "init", code |-> 0, fail |-> NoFailure]
  /\ tx = [p \in Procs |-> TxIdle]
  /\ app_sent_at = {}
  /\ coupons = <<>>
  /\ users = <<>>
  /\ hm = NoMatrix

NextEvaluation ==
  \/ chairProgress
  \/ appPostRideEvaluatationTx

SpecEvaluation == InitEvaluation /\ [][NextEvaluation]_vars

(* Notification polls of the users while the progress reports advance the *)
(* newest ride. The rides before the newest one are COMPLETED and          *)
(* evaluated, with all of their events or only the first three delivered;  *)
(* the newest ride waits for a chair or is paired with one, and none of    *)
(* its events has been delivered. Users are numbered in the order of their *)
(* first ride.                                                             *)
CompletedLog == << "MATCHING", "ENROUTE", "PICKUP", "CARRYING", "ARRIVED", "COMPLETED" >>

InitNotification ==
  /\ \E n \in 1..Min2(MaxRides, NumChairs) :
       \E owner \in [1..n -> Users], delivered \in [1..(n - 1) -> {3, Len(CompletedLog)}],
          paired \in BOOLEAN :
         /\ \A r \in 1..n : \A v \in 1..(owner[r] - 1) : \E q \in 1..(r - 1) : owner[q] = v
         /\ rides = [r \in 1..n |->
                      [NewRide(owner[r], <<0, 0>>, <<1, 1>>) EXCEPT
                         !.chair_id = IF r < n \/ paired THEN r ELSE NULL,
                         !.evaluation = IF r < n THEN 5 ELSE NULL]]
         /\ ride_statuses = [r \in 1..n |->
                      IF r < n THEN CompletedLog
                      ELSE IF paired THEN << "MATCHING", "ENROUTE" >> ELSE << "MATCHING" >>]
         /\ app_sent_at = { <<r, k>> : r \in 1..(n - 1), k \in 1..Len(CompletedLog) }
                            \cap { rk \in (1..n) \X (1..Len(CompletedLog)) : rk[2] <= delivered[rk[1]] }
  /\ chairs = [c \in ChairIDs |-> ChairKinds[1]]
  /\ strategy = "greedy"
  /\ cycle = NoCycle
  /\ resp = [op |-> "init", code |-> 0, fail |-> NoFailure]
  /\ tx = [p \in Procs |-> TxIdle]
  /\ coupons = <<>>
  /\ users = <<>>
  /\ hm = NoMatrix

NextNotification ==
  \/ chairProgress
  \/ appGetNotification

SpecNotification == InitNotification /\ [][NextNotification]_vars

(* Fares: every user is registered, some of them with the invitation code  *)
(* of the first user; the rides of the store are COMPLETED, go to a near   *)
(* or a far destination and carry the coupons their requests bound, in the *)
(* order of the requests. Users are numbered in the order of their first   *)
(* ride.                                                                   *)
RECURSIVE Registered(_, _, _)
Registered(reg, u, invited) ==
  IF u > NumUsers THEN reg
  ELSE Registered(Register(reg, IF u \in invited THEN 1 ELSE NULL), u + 1, invited)

RECURSIVE Bound(_, _, _)
Bound(C, R, r) ==
  IF r > Len(R) THEN C
  ELSE Bound(BindCoupon(C, R[r].user_id, r, rideCount(SubSeq(R, 1, r), R[r].user_id)),
             R, r + 1)

FareDestinations == { <<1, 1>>, <<40, 0>> }

InitFares ==
  /\ \E invited \in SUBSET (2..NumUsers), n \in 0..Min2(MaxRides, NumChairs) :
       \E owner \in [1..n -> Users], dest \in [1..n -> FareDestinations] :
         \E reg \in { Registered([users |-> <<>>, coupons |-> <<>>], 1, invited) } :
           /\ Cardinality(invited) <= 3
           /\ \A r \in 1..n : \A v \in 1..(owner[r] - 1) : \E q \in 1..(r - 1) : owner[q] = v
           /\ rides = [r \in 1..n |->
                        [NewRide(owner[r], <<0, 0>>, dest[r]) EXCEPT
                           !.chair_id = r, !.evaluation = 5]]
           /\ ride_statuses = [r \in 1..n |-> CompletedLog]
           /\ users = reg.users
           /\ coupons = Bound(reg.coupons, rides, 1)
  /\ chairs = [c \in ChairIDs |-> ChairKinds[1]]
  /\ strategy = "greedy"
  /\ cycle = NoCycle
  /\ resp = [op |-> "init", code |-> 0, fail |-> NoFailure]
  /\ tx = [p \in Procs |-> TxIdle]
  /\ app_sent_at = {}
  /\ hm = NoMatrix

NextFares ==
  \/ appPostRides
  \/ appPostRidesEstimatedFare
  \/ appGetRides

SpecFares == InitFares /\ [][NextFares]_vars

(* Registrations that overlap, after the registration of the first user *)
InitUsers ==
  /\ rides = <<>>
  /\ ride_statuses = <<>>
  /\ chairs = [c \in ChairIDs |-> ChairKinds[1]]
  /\ strategy = "greedy"
  /\ cycle = NoCycle
  /\ resp = [op |-> "init", code |-> 0, fail |-> NoFailure]
  /\ tx = [p \in Procs |-> TxIdle]
  /\ app_sent_at = {}
  /\ users = Register([users |-> <<>>, coupons |-> <<>>], NULL).users
  /\ coupons = Register([users |-> <<>>, coupons |-> <<>>], NULL).coupons
  /\ hm = NoMatrix

NextUsers ==
  \/ appPostUsers
  \/ \E p \in Procs : postUsersRead(p)
  \/ \E p \in Procs : postUsersWrite(p)

SpecUsers == InitUsers /\ [][NextUsers]_vars

InitHungarian ==
  /\ rides = <<>>
  /\ ride_statuses = <<>>
  /\ chairs = [c \in ChairIDs |-> ChairKinds[1]]
  /\ strategy = "optimal"
  /\ cycle = NoCycle
  /\ resp = [op |-> "init", code |-> 0, fail |-> NoFailure]
  /\ tx = [p \in Procs |-> TxIdle]
  /\ app_sent_at = {}
  /\ coupons = <<>>
  /\ users = <<>>
  /\ \E n \in 1..MaxN, m \in 1..MaxN :
       \E real \in [1..n -> [1..m -> 0..MaxCost]] :
         hm = [NoMatrix EXCEPT !.costMatrix = PaddedMatrix(real, n, m)]

SpecHungarian == InitHungarian /\ [][solve]_vars

(* The solver on every square matrix, the empty one included, whose cells  *)
(* are costs or the sentinel, wherever the sentinel stands                 *)
SquareCells == {0, 1, MaxCost, largeCost}

InitSquare ==
  /\ rides = <<>>
  /\ ride_statuses = <<>>
  /\ chairs = [c \in ChairIDs |-> ChairKinds[1]]
  /\ strategy = "optimal"
  /\ cycle = NoCycle
  /\ resp = [op |-> "init", code |-> 0, fail |-> NoFailure]
  /\ tx = [p \in Procs |-> TxIdle]
  /\ app_sent_at = {}
  /\ coupons = <<>>
  /\ users = <<>>
  /\ \E n \in 0..MaxN :
       \E cm \in [1..n -> [1..n -> SquareCells]] :
         hm = [NoMatrix EXCEPT !.costMatrix = cm]

SpecSquare == InitSquare /\ [][solve]_vars


----------------------------------------------------------------------------
(* Properties *)

Incomplete(r) == getLatestRideStatus(ride_statuses, r) # "COMPLETED"

AssignedRides(assignments) == { assignments[k].RideID : k \in DOMAIN assignments }

AssignedChairs(assignments) == { assignments[k].ChairID : k \in DOMAIN assignments }

Schedulable(c) ==
  /\ chairs[c].is_active
  /\ chairs[c].last_latitude.Valid /\ chairs[c].last_longitude.Valid
  /\ chairs[c].speed > 0

(* the free chairs of the data model: active and not the chair of any ride *)
(* whose latest status is not COMPLETED                                    *)
FreeNow(c) ==
  /\ chairs[c].is_active
  /\ \A r \in RideIDs(rides) : rides[r].chair_id = c => ~Incomplete(r)

EligibleNow == { r \in RideIDs(rides) :
                   getLatestRideStatus(ride_statuses, r) = "MATCHING" /\ rides[r].chair_id = NULL }

C2_OverlappingCyclesSerial ==
  [][ \A p \in Procs :
        (tx[p].pc = "read" /\ tx'[p].pc = "idle" /\ cycle'.committed)
          => \A k \in DOMAIN tx[p].assignments :
               \A r \in RideIDs(rides') :
                 (r # tx[p].assignments[k].RideID
                    /\ rides'[r].chair_id = tx[p].assignments[k].ChairID)
                   => getLatestRideStatus(ride_statuses', r) = "COMPLETED" ]_vars

(* C3: no re-assignment. Once a ride's chair_id is set, no step, of a      *)
(* later or of a concurrent cycle, changes or clears it.                   *)
C3_NoReassignment ==
  [][ \A r \in RideIDs(rides) :
        rides[r].chair_id # NULL => rides'[r].chair_id = rides[r].chair_id ]_vars

(* C4: every assignment a committed cycle makes consists of both writes:   *)
(* the ride carries the chair and its latest status is ENROUTE.            *)
C4_AssignmentWritesBoth ==
  (resp.op = "matching" /\ cycle.committed)
    => \A k \in DOMAIN cycle.assignments :
         /\ rides[cycle.assignments[k].RideID].chair_id = cycle.assignments[k].ChairID
         /\ getLatestRideStatus(ride_statuses, cycle.assignments[k].RideID) = "ENROUTE"

(* C5: a cycle commits all-or-nothing. When a statement of the commit      *)
(* phase or the final commit fails, the store is what it was before the    *)
(* cycle and the cycle answers 500; when the cycle commits, every          *)
(* assignment of the cycle is on its ride.                                 *)
C5_AllOrNothing ==
  [][ resp'.op = "matching" =>
        /\ resp'.fail.at \in {"exec", "commit"} => (resp'.code = 500 /\ ~cycle'.committed)
        /\ ~cycle'.committed => (rides' = rides /\ ride_statuses' = ride_statuses)
        /\ cycle'.committed =>
             \A k \in DOMAIN cycle'.assignments :
               rides'[cycle'.assignments[k].RideID].chair_id = cycle'.assignments[k].ChairID
      ]_vars

(* the second statement of a cycle with two assignments has failed *)
C5_Witness ==
  /\ resp.op = "matching" /\ resp.fail.at = "exec" /\ resp.fail.k >= 2
  /\ Len(cycle.assignments) >= 2
  /\ resp.code = 500

(* C6: no-op cycle. A cycle in which the store does not fail and that      *)
(* finds no eligible ride or no free schedulable chair leaves rides and    *)
(* ride_statuses unchanged and answers 204.                                *)
C6_NoOpCycle ==
  [][ ( /\ resp'.op = "matching"
        /\ resp'.fail.at = "none"
        /\ (EligibleNow = {} \/ ~ \E c \in ChairIDs : FreeNow(c) /\ Schedulable(c)) )
      => /\ rides' = rides
         /\ ride_statuses' = ride_statuses
         /\ resp'.code = 204
         /\ cycle'.assignments = <<>> ]_vars

(* the optimal cycle has run with free chairs and no eligible ride *)
C6_Witness ==
  /\ resp.op = "matching" /\ resp.fail.at = "none" /\ resp.code = 204
  /\ strategy = "optimal"
  /\ cycle.read /\ cycle.rides = <<>> /\ Len(cycle.freeChairs) >= 1
  /\ Len(rides) >= 1

Pairings(n) ==
  { f \in [1..n -> 1..n] : \A a, b \in 1..n : f[a] = f[b] => a = b }

RECURSIVE PairingCost(_, _, _)
PairingCost(cm, f, i) ==
  IF i = 0 THEN 0 ELSE cm[i][f[i]] + PairingCost(cm, f, i - 1)

(* the cost of the pairs of f that the cycle keeps (cells below largeCost) *)
RECURSIVE RealCost(_, _, _)
RealCost(cm, f, i) ==
  IF i = 0 THEN 0
  ELSE (IF cm[i][f[i]] < largeCost THEN cm[i][f[i]] ELSE 0) + RealCost(cm, f, i - 1)

(* C7: optimal-strategy minimality. The pairing hungarianMethod returns    *)
(* for a padded cost matrix is a perfect pairing whose total cost is at    *)
(* most that of every other perfect pairing, and the real pairs it keeps   *)
(* cost at most the real pairs of every other perfect pairing.             *)
C7_HungarianMinimal ==
  hm.solved =>
    LET n == Len(hm.costMatrix)
    IN /\ hm.assignment \in Pairings(n)
       /\ \A f \in Pairings(n) :
            /\ PairingCost(hm.costMatrix, hm.assignment, n) <= PairingCost(hm.costMatrix, f, n)
            /\ RealCost(hm.costMatrix, hm.assignment, n) <= RealCost(hm.costMatrix, f, n)

(* a matrix of real costs, as large as the bound allows, in which giving  *)
(* every ride its own cheapest chair is impossible and the pairing along   *)
(* the diagonal is not minimal                                             *)
C7_Witness ==
  /\ hm.solved
  /\ Len(hm.costMatrix) = MaxN
  /\ \A i, j \in 1..MaxN : hm.costMatrix[i][j] < largeCost
  /\ \A i \in 1..MaxN : hm.costMatrix[i][1] < hm.costMatrix[i][2]
  /\ PairingCost(hm.costMatrix, hm.assignment, MaxN)
       < PairingCost(hm.costMatrix, [i \in 1..MaxN |-> i], MaxN)

(* C8: in one cycle, under both strategies, each ride is paired with at    *)
(* most one chair and each chair with at most one ride; every pair joins   *)
(* a ride the cycle read as eligible with a free schedulable chair, so no  *)
(* pair exists when the cycle found no free chair, and a pair of the       *)
(* optimal strategy is never a sentinel cell.                              *)
C8_OnePairPerRideAndChair ==
  (resp.op = "matching" /\ cycle.read) =>
    /\ \A k1, k2 \in DOMAIN cycle.assignments :
         k1 # k2 => /\ cycle.assignments[k1].RideID # cycle.assignments[k2].RideID
                    /\ cycle.assignments[k1].ChairID # cycle.assignments[k2].ChairID
    /\ AssignedRides(cycle.assignments) \subseteq SeqToSet(cycle.rides)
    /\ AssignedChairs(cycle.assignments) \subseteq SeqToSet(cycle.freeChairs)
    /\ \A c \in AssignedChairs(cycle.assignments) : Schedulable(c)
    /\ (Len(cycle.freeChairs) = 0 => cycle.assignments = <<>>)
    /\ strategy = "optimal" =>
         /\ Len(cycle.costs) = Len(cycle.assignments)
         /\ \A k \in DOMAIN cycle.costs : cycle.costs[k] < largeCost

(* a cycle has paired two rides with two chairs *)
C8_Witness ==
  /\ resp.op = "matching" /\ cycle.committed
  /\ Len(cycle.assignments) = 2

C12_UnschedulableExcluded ==
  [][ resp'.op = "matching" =>
        /\ \A c \in AssignedChairs(cycle'.assignments) :
             /\ chairs[c].last_latitude.Valid /\ chairs[c].last_longitude.Valid
             /\ chairs[c].speed > 0
        /\ resp'.code = 500 => resp'.fail.at # "none"
        /\ ( /\ resp'.fail.at = "none"
             /\ Cardinality(EligibleNow) = 1
             /\ \A c \in ChairIDs : FreeNow(c) => chairs[c].speed <= 0 )
           => /\ cycle'.assignments = <<>>
              /\ resp'.code = 204
              /\ rides' = rides /\ ride_statuses' = ride_statuses ]_vars

(* a cycle has run with a single eligible ride and a single free chair,    *)
(* located and of speed 0                                                  *)
C12_Witness ==
  /\ resp.op = "matching" /\ resp.fail.at = "none" /\ resp.code = 204
  /\ cycle.read /\ Len(cycle.rides) = 1 /\ cycle.assignments = <<>>
  /\ Cardinality({ c \in ChairIDs : FreeNow(c) }) = 1
  /\ \E c \in ChairIDs :
       FreeNow(c) /\ chairs[c].last_latitude.Valid /\ chairs[c].speed <= 0

(* the chairs still in the map freeChairs when the ride of the k-th pair   *)
(* of a greedy cycle is decided                                            *)
FreeAtTurn(k) ==
  SeqToSet(cycle.freeChairs) \ { cycle.assignments[k0].ChairID : k0 \in 1..(k - 1) }

PairTime(r, c) == TimeEstimate(rides[r], chairs[c])

GreedyOutcomes ==
  { plan.assignments :
      plan \in PlansGreedy(rides, ride_statuses, chairs,
                           OrderedIDs(SelectChairsWithModel(rides, ride_statuses, chairs),
                                      1, NumChairs)) }

(* C14: the greedy strategy is deterministic. The pairing a greedy cycle   *)
(* produces is the pairing every run of the cycle from the same store,     *)
(* that is with the same eligible rides and the same free chairs,          *)
(* produces.                                                               *)
C14_GreedyDeterministic ==
  [][ (resp'.op = "matching" /\ cycle'.read /\ strategy = "greedy")
        => \A a \in GreedyOutcomes : a = cycle'.assignments ]_vars

(* the cell of the cost matrix of the optimal cycle for ride r and chair c *)
OptimalCost(r, c) == CostCell(rides, chairs, <<r>>, <<c>>, 1, 1)

(* C15: in the optimal strategy the padding sentinel is strictly greater   *)
(* than every real cost of the matrix, and the pairs discarded are exactly *)
(* the padding cells: every perfect pairing of the padded matrix has       *)
(* min(rides, chairs) real cells, and the cycle keeps that many pairs.     *)
C15_SentinelAboveRealCosts ==
  (resp.op = "matching" /\ cycle.read /\ strategy = "optimal" /\ Len(cycle.freeChairs) > 0) =>
    /\ \A r \in SeqToSet(cycle.rides), c \in SeqToSet(cycle.freeChairs) :
         OptimalCost(r, c) < largeCost
    /\ Len(cycle.assignments) = Min2(Len(cycle.rides), Len(cycle.freeChairs))

(* distance(chair location, ride pickup) and distance(pickup, destination) *)
PickupDistance(r, c) ==
  calculateDistance(chairs[c].last_latitude.Int64, chairs[c].last_longitude.Int64,
                    rides[r].pickup_latitude, rides[r].pickup_longitude)

TripDistance(r) ==
  calculateDistance(rides[r].pickup_latitude, rides[r].pickup_longitude,
                    rides[r].destination_latitude, rides[r].destination_longitude)

(* the quotient q of a non-negative distance by a positive speed, truncated *)
IsTruncatedQuotient(q, dist, speed) ==
  q >= 0 /\ q * speed <= dist /\ dist < (q + 1) * speed

TruncatedQuotient(dist, speed) ==
  CHOOSE q \in 0..dist : IsTruncatedQuotient(q, dist, speed)

(* the chair of every pair of a greedy cycle minimises, over the usable    *)
(* chairs free at its turn, distance(chair, pickup) / speed                *)
GreedyUsesPickupCost ==
  \A k \in DOMAIN cycle.assignments :
    \A c \in FreeAtTurn(k) :
      chairs[c].speed > 0 =>
        TruncatedQuotient(PickupDistance(cycle.assignments[k].RideID,
                                         cycle.assignments[k].ChairID),
                          chairs[cycle.assignments[k].ChairID].speed)
          <= TruncatedQuotient(PickupDistance(cycle.assignments[k].RideID, c),
                               chairs[c].speed)

C17_CostMonotone ==
  (resp.op = "estimate" /\ cycle.read) =>
    /\ \A c \in ChairIDs : cycle.costs[c] >= 0
    /\ \A c1, c2 \in ChairIDs :
         ( /\ chairs[c1].speed = chairs[c2].speed
           /\ abs(chairs[c1].last_latitude.Int64 - rides[1].pickup_latitude)
                <= abs(chairs[c2].last_latitude.Int64 - rides[1].pickup_latitude) )
         => cycle.costs[c1] <= cycle.costs[c2]

(* two chairs of speed 2, on opposite sides of the pickup, the farther one *)
(* with the greater cost                                                   *)
C17_Witness ==
  /\ resp.op = "estimate" /\ cycle.read
  /\ \E c1, c2 \in ChairIDs :
       /\ chairs[c1].speed = 2 /\ chairs[c2].speed = 2
       /\ chairs[c1].last_latitude.Int64 < rides[1].pickup_latitude
       /\ chairs[c2].last_latitude.Int64 > rides[1].pickup_latitude
       /\ abs(chairs[c1].last_latitude.Int64 - rides[1].pickup_latitude)
            < abs(chairs[c2].last_latitude.Int64 - rides[1].pickup_latitude)
       /\ 0 <= cycle.costs[c1] /\ cycle.costs[c1] < cycle.costs[c2]

(* the place of a status label in the lifecycle *)
StatusRank(st) ==
  CASE st = "MATCHING"  -> 1
    [] st = "ENROUTE"   -> 2
    [] st = "PICKUP"    -> 3
    [] st = "CARRYING"  -> 4
    [] st = "ARRIVED"   -> 5
    [] st = "COMPLETED" -> 6

(* C18: lifecycle monotonicity. For every ride the status events, taken in *)
(* created_at order, start with MATCHING and every event carries the label *)
(* that follows the label of the event before it: no label is skipped or   *)
(* revisited and no event follows COMPLETED.                               *)
C18_LifecycleMonotone ==
  \A r \in RideIDs(rides) :
    /\ Len(ride_statuses[r]) >= 1 /\ ride_statuses[r][1] = "MATCHING"
    /\ \A k \in 1..(Len(ride_statuses[r]) - 1) :
         StatusRank(ride_statuses[r][k + 1]) = StatusRank(ride_statuses[r][k]) + 1

(* C19: the only status transition of the matching engine is MATCHING to   *)
(* ENROUTE. A step of a cycle, whole or its commit phase, leaves the       *)
(* events of a ride as they are or appends one ENROUTE event to a ride     *)
(* whose latest status, when the step is taken, is MATCHING; so ENROUTE is *)
(* appended at most once per ride.                                         *)
C19_OnlyMatchingToEnroute ==
  [][ resp'.op \in {"matching", "txCommit"} =>
        /\ Len(ride_statuses') = Len(ride_statuses)
        /\ \A r \in RideIDs(rides) :
             \/ ride_statuses'[r] = ride_statuses[r]
             \/ /\ ride_statuses'[r] = Append(ride_statuses[r], "ENROUTE")
                /\ getLatestRideStatus(ride_statuses, r) = "MATCHING" ]_vars

(* C20: the write surface of a matching cycle. A cycle leaves the chairs   *)
(* and their locations as they are, creates no ride, changes no field of a *)
(* ride other than chair_id, changes nothing of a ride it does not assign, *)
(* and changes the status events of a ride only by appending rows.         *)
C20_WriteSurface ==
  [][ resp'.op = "matching" =>
        /\ chairs' = chairs
        /\ Len(rides') = Len(rides) /\ Len(ride_statuses') = Len(ride_statuses)
        /\ \A r \in RideIDs(rides) :
             /\ [rides'[r] EXCEPT !.chair_id = rides[r].chair_id] = rides[r]
             /\ Len(ride_statuses'[r]) >= Len(ride_statuses[r])
             /\ SubSeq(ride_statuses'[r], 1, Len(ride_statuses[r])) = ride_statuses[r]
             /\ r \notin AssignedRides(cycle'.assignments)
                  => (rides'[r] = rides[r] /\ ride_statuses'[r] = ride_statuses[r]) ]_vars

(* a cycle has committed a chair for one ride while another ride, which it *)
(* did not assign, has a chair and events of its own                       *)
C20_Witness ==
  /\ resp.op = "matching" /\ cycle.committed
  /\ \E r1, r2 \in RideIDs(rides) :
       /\ r1 \in AssignedRides(cycle.assignments)
       /\ r2 \notin AssignedRides(cycle.assignments)
       /\ rides[r2].chair_id # NULL
       /\ Len(ride_statuses[r2]) >= 2

(* C21: assignment conflict. When the commit phase of an invocation runs   *)
(* without a store failure, an assignment whose ride already has a chair,  *)
(* set by a concurrent cycle, leaves that chair on the ride, the other     *)
(* assignments of the batch are written, and the cycle does not fail.      *)
C21_ConflictDropped ==
  [][ \A p \in Procs :
        (tx[p].pc = "read" /\ tx'[p].pc = "idle" /\ resp'.fail.at = "none")
          => /\ resp'.code = 204
             /\ \A k \in DOMAIN tx[p].assignments :
                  IF rides[tx[p].assignments[k].RideID].chair_id # NULL
                  THEN rides'[tx[p].assignments[k].RideID].chair_id
                         = rides[tx[p].assignments[k].RideID].chair_id
                  ELSE rides'[tx[p].assignments[k].RideID].chair_id
                         = tx[p].assignments[k].ChairID ]_vars

(* the answer of a cycle that reads no eligible ride and no free chair *)
NoWorkCode ==
  IF strategy = "optimal"
  THEN RunOptimal(Store, PlanRecord(<<>>, {}, <<>>, <<>>), NoFailure).code
  ELSE RunGreedy(Store, PlanRecord(<<>>, {}, <<>>, <<>>), NoFailure).code

(* C22: the two non-error outcomes of a cycle can be told apart by the     *)
(* caller: the answer of a cycle that has committed assignments is not the *)
(* answer of a cycle that found no eligible work.                          *)
C22_OutcomesDistinguishable ==
  (resp.op = "matching" /\ cycle.committed) => resp.code # NoWorkCode

(* C23: ride creation. A request that is accepted adds one ride, without a *)
(* chair, and its status events are the single event MATCHING; a request   *)
(* that is not accepted, rejected or failed at any statement, leaves no    *)
(* ride and no status event behind; no other ride is touched.              *)
C23_RideCreation ==
  [][ resp'.op = "postRides" =>
        IF resp'.code = 202
        THEN /\ Len(rides') = Len(rides) + 1
             /\ SubSeq(rides', 1, Len(rides)) = rides
             /\ rides'[Len(rides')].chair_id = NULL
             /\ Len(ride_statuses') = Len(rides')
             /\ SubSeq(ride_statuses', 1, Len(rides)) = ride_statuses
             /\ ride_statuses'[Len(rides')] = << "MATCHING" >>
        ELSE rides' = rides /\ ride_statuses' = ride_statuses ]_vars

(* the insert of the status row of a second ride has failed: the store     *)
(* holds the first ride only                                               *)
C23_Witness ==
  /\ resp.op = "postRides" /\ resp.code = 500 /\ resp.fail.at = "insertStatus"
  /\ Len(rides) = 1 /\ Len(ride_statuses) = 1

(* C24: the current status of a ride is the label of its latest event, and *)
(* the derivations of the code agree on it: for every ride the rows the    *)
(* MAX(created_at) self-join of the cycle returns carry one label, which   *)
(* is the label getLatestRideStatus returns and the entry of statusMap in  *)
(* appPostRides.                                                           *)
C24_StatusDerivationsAgree ==
  \A r \in RideIDs(rides) :
    /\ LatestStatusRows(ride_statuses[r]) = { getLatestRideStatus(ride_statuses, r) }
    /\ StatusMapEntry(ride_statuses, r) = getLatestRideStatus(ride_statuses, r)
    /\ getLatestRideStatus(ride_statuses, r) = ride_statuses[r][Len(ride_statuses[r])]

(* one ride has reached CARRYING through four events while another ride    *)
(* has its first event only                                                *)
C24_Witness ==
  \E r1, r2 \in RideIDs(rides) :
    /\ Len(ride_statuses[r1]) = 4 /\ getLatestRideStatus(ride_statuses, r1) = "CARRYING"
    /\ Len(ride_statuses[r2]) = 1 /\ getLatestRideStatus(ride_statuses, r2) = "MATCHING"

(* the coordinates present in the store: pickups, destinations and the     *)
(* locations of the chairs                                                 *)
PointsOfStore ==
  { <<rides[r].pickup_latitude, rides[r].pickup_longitude>> : r \in RideIDs(rides) }
    \cup { <<rides[r].destination_latitude, rides[r].destination_longitude>> :
             r \in RideIDs(rides) }
    \cup { <<chairs[c].last_latitude.Int64, chairs[c].last_longitude.Int64>> : c \in ChairIDs }

(* C25: calculateDistance is the grid distance: for all points a, b of the *)
(* bounded range it returns |a.lat - b.lat| + |a.lon - b.lon|, which is    *)
(* non-negative, the same for (a, b) and (b, a), and zero exactly when     *)
(* a = b.                                                                  *)
C25_GridDistance ==
  \A a, b \in PointsOfStore :
    /\ calculateDistance(a[1], a[2], b[1], b[2])
         = Max2(a[1] - b[1], b[1] - a[1]) + Max2(a[2] - b[2], b[2] - a[2])
    /\ calculateDistance(a[1], a[2], b[1], b[2]) >= 0
    /\ calculateDistance(a[1], a[2], b[1], b[2]) = calculateDistance(b[1], b[2], a[1], a[2])
    /\ (calculateDistance(a[1], a[2], b[1], b[2]) = 0) <=> (a = b)

(* the cost model has been applied to a store with a chair at a negative   *)
(* latitude, a chair on the destination and a pickup between them          *)
C25_Witness ==
  /\ resp.op = "estimate" /\ cycle.read
  /\ \E c1, c2 \in ChairIDs :
       /\ chairs[c1].last_latitude.Int64 < 0
       /\ rides[1].pickup_latitude > chairs[c1].last_latitude.Int64
       /\ rides[1].pickup_latitude < chairs[c2].last_latitude.Int64
       /\ <<chairs[c2].last_latitude.Int64, chairs[c2].last_longitude.Int64>>
            = <<rides[1].destination_latitude, rides[1].destination_longitude>>

SchedulableChairFree == \E c \in ChairIDs : FreeNow(c) /\ Schedulable(c)

(* the rides table a cycle that meets no failure can leave, for every      *)
(* order of the rows its reads can return                                  *)
CycleStores ==
  IF strategy = "optimal"
  THEN { RunOptimal(Store, PlanOptimal(rides, ride_statuses, chairs, o), NoFailure).rides :
           o \in Orders(SelectChairsWithModel(rides, ride_statuses, chairs)) }
  ELSE { RunGreedy(Store, plan, NoFailure).rides :
           plan \in PlansGreedy(rides, ride_statuses, chairs,
                                OrderedIDs(SelectChairsWithModel(rides, ride_statuses, chairs),
                                           1, NumChairs)) }

(* C26: forward progress. While cycles keep being invoked, a ride that is  *)
(* eligible while a schedulable chair is free is eventually given a chair. *)
(* A cycle that fails leaves the store as it was, and so does a cycle that *)
(* commits nothing: were every cycle without failure to leave the rides    *)
(* table unchanged, the ride would stay eligible and the chair free for    *)
(* ever, however often the cycle is invoked. Forward progress therefore    *)
(* requires that in every reachable state with an eligible ride and a free *)
(* schedulable chair some cycle without failure assigns a chair.           *)
C26_ForwardProgress ==
  (EligibleNow # {} /\ SchedulableChairFree) => \E R \in CycleStores : R # rides

FreeSchedulableNow == { c \in ChairIDs : FreeNow(c) /\ Schedulable(c) }

(* C27: a cycle of the optimal strategy in which no statement fails, run   *)
(* on n eligible rides and m free schedulable chairs whose real costs are  *)
(* all below the sentinel, commits exactly min(n, m) assignments; their    *)
(* rides are distinct and were eligible, their chairs are distinct and     *)
(* were free and schedulable, and each ride carries its chair afterwards.  *)
C27_CommitsMinPairs ==
  [][ ( /\ resp'.op = "matching" /\ strategy = "optimal" /\ resp'.fail.at = "none"
        /\ \A r \in EligibleNow, c \in FreeSchedulableNow : OptimalCost(r, c) < largeCost )
      => \E k \in { Min2(Cardinality(EligibleNow), Cardinality(FreeSchedulableNow)) } :
           /\ Len(cycle'.assignments) = k
           /\ Cardinality(AssignedRides(cycle'.assignments)) = k
           /\ Cardinality(AssignedChairs(cycle'.assignments)) = k
           /\ AssignedRides(cycle'.assignments) \subseteq EligibleNow
           /\ AssignedChairs(cycle'.assignments) \subseteq FreeSchedulableNow
           /\ \A i \in DOMAIN cycle'.assignments :
                rides'[cycle'.assignments[i].RideID].chair_id = cycle'.assignments[i].ChairID
           /\ \A r \in RideIDs(rides) \ AssignedRides(cycle'.assignments) :
                rides'[r].chair_id = rides[r].chair_id ]_vars

(* the optimal cycle has committed one assignment on two eligible rides    *)
(* and one free schedulable chair                                          *)
C27_Witness ==
  /\ resp.op = "matching" /\ strategy = "optimal" /\ resp.fail.at = "none"
  /\ cycle.committed /\ Len(cycle.assignments) = 1
  /\ Len(cycle.rides) = 2 /\ Len(cycle.freeChairs) = 1

(* C28: hungarianMethod returns for every n x n matrix, n >= 0, whose      *)
(* cells lie between 0 and the sentinel, and what it returns is a          *)
(* permutation of the n indices: every row has a column, every column is   *)
(* in range and no column is given to two rows (rows and columns counted   *)
(* from 1 here, from 0 in the code). The solver's answer stored by the     *)
(* cycle is that permutation.                                              *)
C28_HungarianPermutation ==
  (\A i, j \in 1..Len(hm.costMatrix) : hm.costMatrix[i][j] \in 0..largeCost) =>
    \E res \in { hungarianMethod(hm.costMatrix) } :
      /\ DOMAIN res = 1..Len(hm.costMatrix)
      /\ \A i \in DOMAIN res : res[i] \in 1..Len(hm.costMatrix)
      /\ \A a, b \in DOMAIN res : res[a] = res[b] => a = b
      /\ hm.solved => hm.assignment = res

(* the solver has answered on a matrix of the largest size whose first row *)
(* holds only the sentinel and whose diagonal is dearer than the rest      *)
C28_Witness ==
  /\ hm.solved
  /\ Len(hm.costMatrix) = MaxN
  /\ \A j \in 1..MaxN : hm.costMatrix[1][j] = largeCost
  /\ \A i \in 2..MaxN : \A j \in 1..MaxN :
       hm.costMatrix[i][j] = (IF i = j THEN MaxCost ELSE 0)

(* the solver has answered on the empty matrix *)
C28_WitnessEmpty ==
  /\ hm.solved /\ hm.costMatrix = <<>> /\ hm.assignment = <<>>

(* C29: the eligibility read returns each eligible ride exactly once. In   *)
(* every reachable state the rows of the joins are the eligible rides, one *)
(* row each, in the order the cycle takes them; a cycle therefore gives    *)
(* no ride two rows of its cost matrix and no ride two chairs.             *)
C29_EligibleOnce ==
  /\ \E rows \in { EligibilityRows(rides, ride_statuses, 1) } :
       /\ rows = SelectEligibleRides(rides, ride_statuses)
       /\ \A a, b \in DOMAIN rows : rows[a] = rows[b] => a = b
       /\ \A r \in EligibleNow : \E a \in DOMAIN rows : rows[a] = r
  /\ (resp.op = "matching" /\ cycle.read) =>
       /\ \A a, b \in DOMAIN cycle.rides : cycle.rides[a] = cycle.rides[b] => a = b
       /\ \A a, b \in DOMAIN cycle.assignments :
            cycle.assignments[a].RideID = cycle.assignments[b].RideID => a = b

(* a cycle has paired an eligible ride while another ride, which has a     *)
(* chair, holds several rows in the status log                             *)
C29_Witness ==
  /\ resp.op = "matching" /\ cycle.read /\ Len(cycle.assignments) >= 1
  /\ \E r \in RideIDs(rides) \ SeqToSet(cycle.rides) : Len(ride_statuses[r]) >= 3

(* C30: appPostRideEvaluatation appends COMPLETED only to a ride whose     *)
(* latest status is ARRIVED and with an evaluation between 1 and 5: the    *)
(* request then stores the evaluation and appends the one row, to that     *)
(* ride alone. For any other latest status or evaluation (and for an       *)
(* unknown ride) it answers with an error and leaves every ride's          *)
(* evaluation and status log as they were; so does every request that      *)
(* answers with an error.                                                  *)
C30_EvaluationGuard ==
  [][ resp'.op = "evaluation" =>
        /\ (ride_statuses' # ride_statuses \/ rides' # rides \/ resp'.code = 200) =>
             /\ resp'.ride \in RideIDs(rides)
             /\ getLatestRideStatus(ride_statuses, resp'.ride) = "ARRIVED"
             /\ resp'.evaluation \in 1..5
             /\ resp'.code = 200
             /\ ride_statuses' = [ride_statuses EXCEPT ![resp'.ride] = Append(@, "COMPLETED")]
             /\ rides' = [rides EXCEPT ![resp'.ride].evaluation = resp'.evaluation]
        /\ ( \/ resp'.evaluation \notin 1..5
             \/ resp'.ride \notin RideIDs(rides)
             \/ getLatestRideStatus(ride_statuses, resp'.ride) # "ARRIVED" )
            => /\ resp'.code >= 400
               /\ rides' = rides
               /\ ride_statuses' = ride_statuses
        /\ resp'.code # 200 =>
             /\ resp'.code >= 400
             /\ rides' = rides
             /\ ride_statuses' = ride_statuses ]_vars

(* an evaluation has been refused on an ARRIVED ride for its value, and    *)
(* the ride is still ARRIVED and not evaluated                             *)
C30_Witness ==
  /\ resp.op = "evaluation" /\ resp.code = 400 /\ resp.evaluation = 0
  /\ resp.ride \in RideIDs(rides)
  /\ getLatestRideStatus(ride_statuses, resp.ride) = "ARRIVED"
  /\ rides[resp.ride].evaluation = NULL

(* C31: an evaluation request that fails after the COMPLETED row has been  *)
(* inserted (no payment token, a payment the gateway refuses, a failing    *)
(* later statement or commit) is rolled back: it answers with an error,    *)
(* the ride's latest status is still ARRIVED, its evaluation is unset and  *)
(* its chair is still not among the chairs a matching cycle reads as free. *)
C31_EvaluationRolledBack ==
  [][ ( /\ resp'.op = "evaluation"
        /\ resp'.fail.at \in {"paymentToken", "gateway", "after", "commit"} )
      => /\ resp'.code \in {400, 500, 502}
         /\ getLatestRideStatus(ride_statuses', resp'.ride) = "ARRIVED"
         /\ "COMPLETED" \notin SeqToSet(ride_statuses'[resp'.ride])
         /\ rides'[resp'.ride].evaluation = NULL
         /\ rides'[resp'.ride].chair_id # NULL
         /\ rides'[resp'.ride].chair_id
              \notin SelectChairsWithModel(rides', ride_statuses', chairs') ]_vars

(* the payment gateway has refused the payment of an ARRIVED ride *)
C31_Witness ==
  /\ resp.op = "evaluation" /\ resp.fail.at = "gateway" /\ resp.code = 502
  /\ getLatestRideStatus(ride_statuses, resp.ride) = "ARRIVED"
  /\ rides[resp.ride].evaluation = NULL

OngoingRidesOf(user) ==
  { r \in RideIDs(rides) : rides[r].user_id = user /\ Incomplete(r) }

(* C32: a user never has two rides whose latest status is not COMPLETED,   *)
(* also when creation requests of one user overlap; a request answered     *)
(* with a conflict creates nothing.                                        *)
C32_OneOngoingRidePerUser ==
  /\ \A user \in Users : Cardinality(OngoingRidesOf(user)) <= 1
  /\ (resp.op \in {"postRides", "postRidesCommit"} /\ resp.code = 202) =>
       Cardinality(OngoingRidesOf(rides[Len(rides)].user_id)) = 1

(* the unsent rows of a ride, and the oldest of a non-empty set of rows *)
UnsentRows(rideID) ==
  { k \in DOMAIN ride_statuses[rideID] : <<rideID, k>> \notin app_sent_at }

OldestRow(rows) == CHOOSE k \in rows : \A j \in rows : k <= j

(* C33: appGetNotification delivers the events of the user's latest ride   *)
(* in creation order. A successful call for a user with a ride answers for *)
(* that user's newest ride; when the ride has unsent events it returns the *)
(* oldest of them and marks exactly that one sent, otherwise it returns    *)
(* the latest status and marks nothing; a failed call marks nothing; and   *)
(* the sent events of every ride are always the first events of its log,   *)
(* so that successive calls neither skip an event nor return one twice.    *)
C33_NotificationsInOrder ==
  [][ /\ \A r \in RideIDs(rides') : \A k \in DOMAIN ride_statuses'[r] :
           <<r, k>> \in app_sent_at' => \A j \in 1..k : <<r, j>> \in app_sent_at'
      /\ resp'.op = "notification" =>
           /\ rides' = rides /\ ride_statuses' = ride_statuses
           /\ resp'.code # 200 => app_sent_at' = app_sent_at
           /\ (resp'.code = 200 /\ \E r \in RideIDs(rides) : rides[r].user_id = resp'.user) =>
                /\ rides[resp'.ride].user_id = resp'.user
                /\ \A q \in RideIDs(rides) : rides[q].user_id = resp'.user => q <= resp'.ride
                /\ IF UnsentRows(resp'.ride) # {}
                   THEN /\ resp'.marked = OldestRow(UnsentRows(resp'.ride))
                        /\ resp'.status = ride_statuses[resp'.ride][resp'.marked]
                        /\ app_sent_at' = app_sent_at \cup { <<resp'.ride, resp'.marked>> }
                        /\ <<resp'.ride, resp'.marked>> \notin app_sent_at
                   ELSE /\ resp'.status = getLatestRideStatus(ride_statuses, resp'.ride)
                        /\ resp'.marked = NULL
                        /\ app_sent_at' = app_sent_at ]_vars

(* a poll has delivered the third event of a ride after the first two, and *)
(* a later event of the ride is still unsent                               *)
C33_Witness ==
  /\ resp.op = "notification" /\ resp.code = 200 /\ resp.marked = 3
  /\ {<<resp.ride, 1>>, <<resp.ride, 2>>, <<resp.ride, 3>>} \subseteq app_sent_at
  /\ Len(ride_statuses[resp.ride]) > 3

(* a poll finds every event of the ride sent and repeats the latest status *)
C33_WitnessNothingUnsent ==
  /\ resp.op = "notification" /\ resp.code = 200
  /\ resp.ride # NULL /\ resp.marked = NULL
  /\ resp.status = getLatestRideStatus(ride_statuses, resp.ride)

(* C34: calculateFaresForRides gives every ride of its input the fare      *)
(* calculateDiscountedFare gives that ride. For every set of rides,        *)
(* whatever the order in which the coupon rows are read and whichever row  *)
(* the single-ride read returns, the two fares are equal, and both are     *)
(* initialFare + max(farePerDistance * distance - discount, 0) with the    *)
(* discount of the coupon bound to the ride, 0 when none is bound.         *)
C34_FaresAgree ==
  \A rideIDs \in SUBSET RideIDs(rides) :
    \A usedCoupons \in UsedCouponReads(coupons, rideIDs) :
      /\ DOMAIN calculateFaresForRides(rides, coupons, rideIDs, usedCoupons) = rideIDs
      /\ \A r \in rideIDs : \A row \in FareCoupons(coupons, rides[r].user_id, r) :
           /\ calculateFaresForRides(rides, coupons, rideIDs, usedCoupons)[r]
                = calculateDiscountedFare(rides, coupons, r, <<0, 0>>, <<0, 0>>, row)
           /\ (row = NULL) = (\A k \in DOMAIN coupons : coupons[k].used_by # r)
           /\ calculateFaresForRides(rides, coupons, rideIDs, usedCoupons)[r]
                = initialFare
                  + Max2(farePerDistance
                           * ( abs(rides[r].pickup_latitude - rides[r].destination_latitude)
                             + abs(rides[r].pickup_longitude - rides[r].destination_longitude) )
                         - (IF row = NULL THEN 0 ELSE coupons[row].discount), 0)

(* appGetRides has answered with the fares of two rides of one user, one   *)
(* of them reduced by its coupon and still above initialFare, the other    *)
(* without a coupon                                                        *)
C34_Witness ==
  /\ resp.op = "getRides" /\ resp.code = 200
  /\ \E r, q \in DOMAIN resp.fares :
       /\ r # q
       /\ \E k \in DOMAIN coupons : coupons[k].used_by = r
       /\ resp.fares[r] > initialFare
       /\ resp.fares[r] < calculateFare(rides[r].pickup_latitude, rides[r].pickup_longitude,
                             rides[r].destination_latitude, rides[r].destination_longitude)
       /\ \A k \in DOMAIN coupons : coupons[k].used_by # q

(* C35: the discounted fare lies between initialFare and the undiscounted  *)
(* fare of the same coordinates. It does for every stored ride and every   *)
(* coupon row its fare can be computed with, and for every estimate        *)
(* appPostRidesEstimatedFare answers, whose reported discount              *)
(* (calculateFare minus the discounted fare) is therefore never negative.  *)
C35_FareBounds ==
  /\ \A r \in RideIDs(rides) : \A row \in FareCoupons(coupons, rides[r].user_id, r) :
       /\ initialFare <= calculateDiscountedFare(rides, coupons, r, <<0, 0>>, <<0, 0>>, row)
       /\ calculateDiscountedFare(rides, coupons, r, <<0, 0>>, <<0, 0>>, row)
            <= calculateFare(rides[r].pickup_latitude, rides[r].pickup_longitude,
                             rides[r].destination_latitude, rides[r].destination_longitude)
  /\ (resp.op = "estimatedFare" /\ resp.code = 200) =>
       /\ initialFare <= resp.fare
       /\ resp.fare <= calculateFare(resp.pickup[1], resp.pickup[2], resp.dest[1], resp.dest[2])
       /\ resp.discount >= 0

(* the same bounds for the estimates of coordinates that fit the INT       *)
(* columns of rides                                                        *)
C35_FareBoundsOfStorableCoordinates ==
  (resp.op = "estimatedFare" => resp.pickup # <<MaxInt, MaxInt>>) => C35_FareBounds

(* C36: an invitation code is redeemed at most 3 times. After every step   *)
(* of registrations that run alone or overlap, at most 3 coupons carry     *)
(* INV_<code> for every code, and a registration rejected because its code *)
(* is exhausted or unknown answers 400 and leaves the users and the        *)
(* coupons as they were.                                                   *)
C36_AtMostThreeRedemptions ==
  [][ /\ \A code \in InvitationCodes \ {NULL} :
           Cardinality(InvitationCoupons(coupons', code)) <= 3
      /\ ( /\ resp'.op \in {"postUsers", "postUsersRead"}
           /\ resp'.rejected \in {"exhausted", "unknown"} )
         => /\ resp'.code = 400
            /\ users' = users
            /\ coupons' = coupons
      /\ ( /\ resp'.op \in {"postUsers", "postUsersRead"}
           /\ resp'.invitation # NULL
           /\ resp'.fail.at \in {"none", "commit", "insertInvitation", "insertReward"}
           /\ \/ Cardinality(InvitationCoupons(coupons, resp'.invitation)) >= 3
              \/ \A u \in DOMAIN users : users[u].invitation_code # resp'.invitation )
         => resp'.rejected \in {"exhausted", "unknown"} ]_vars

(* the code of the first user has been redeemed 3 times and a further      *)
(* registration with the code has just been rejected, while a registration *)
(* with another code is open                                               *)
C36_Witness ==
  /\ resp.op = "postUsersRead" /\ resp.rejected = "exhausted" /\ resp.invitation = 1
  /\ Cardinality(InvitationCoupons(coupons, 1)) = 3
  /\ \E p \in Procs : tx[p].pc = "registering"

(* a registration with the code of a user who is not registered has been   *)
(* rejected                                                                *)
C36_WitnessUnknown ==
  /\ resp.op = "postUsers" /\ resp.rejected = "unknown" /\ resp.code = 400

====
